---------------------------- MODULE Spec2Model ----------------------------
(***************************************************************************)
(* mcpkit: the authentication orchestrator (authenticateToWebsite) and the *)
(* authentication analyzer (analyzeAuthenticationState) as a state machine. *)
(*                                                                         *)
(* One run of authenticateToWebsite is a sequential process; pc is its     *)
(* position, and every awaited call of the automation engine, the language *)
(* model, the vault and the operator is one action whose outcome is drawn  *)
(* from the outcomes that call can have (return or raise).                 *)
(*                                                                         *)
(* Optional values (a field that may be undefined, credentials that may be *)
(* absent) are sequences of length at most one: << >> is undefined/null.   *)
(* Console lines are sequences of string parts (the template pieces and    *)
(* the interpolated values, in order); leading emoji are left out.         *)
(***************************************************************************)
EXTENDS Naturals, Sequences, FiniteSets

VARIABLES
    pc,            \* position of the run inside authenticateToWebsite
    analysis,      \* the local variable `analysis`
    credentials,   \* the local variable `credentials` (<< >>: null)
    userInput,     \* the local variable `userInput` (<< >>: not read yet)
    result,        \* "none" while running, then "Verified", "Skipped" or "Failed"
    thrown,        \* the value the run raised (<< >> when none)
    console,       \* lines written with console.log, in order
    calls,         \* history: the external calls issued, in order
    analysisAt,    \* history: Len(calls) when `analysis` was last assigned
    lastAnalyzer,  \* history: the last analyzeAuthenticationState invocation
    dpc,           \* position of one discoverActions call ("idle": none)
    agentResult,   \* what agent.execute settles with for that call
    discovered,    \* how the discoverActions call completed
    spc,           \* position of one getStagehandInstance call ("idle": none)
    stagehandInstance, \* the module-level `stagehandInstance` (<< >>: null)
    contextStore,  \* the persisted mapping domain -> context id (<< >>: none)
    sessionCall,   \* the arguments, locals and completion of the last call
    sessionLog,    \* history: calls, provisioning requests, handles, in order
    process,       \* history: the number of the running process
    cpc,           \* position of one `mcpkit create` run ("idle": none)
    skipAuth,      \* the --skip-auth flag of that run
    generatorCalls, \* history: what the generator was invoked with, in order
    createError,   \* what createMCPServer raised (<< >>: nothing)
    exitCode,      \* the code the process exited with (<< >>: still running)
    upc,           \* position of one URL entry of runCreate ("idle": none)
    urlInput,      \* the URL as given on the command line or typed
    urlValid,      \* what the prompt's validate made of it (<< >>: not asked)
    urlResult,     \* how normalizeUrl completed on it
    modelEnv,      \* MODEL_PROVIDER and MODEL_API_KEY as loadEnv gives them
    cachedModel,   \* the module-level `cachedModel` (<< >>: null)
    modelLog,      \* history: how each getModel call completed, in order
    serverEnv,     \* generated server: BROWSERBASE_CONTEXT_ID and the saved context
    stagehand,     \* generated server: the module-level stagehand (<< >>: unset)
    requests,      \* generated server: the tool-call requests and where each is
    pages,         \* generated server: the URL of the page of each instance
    serverLog      \* history: contexts created, instances made and initialised

\* The variables of discoverActions; console is shared by the whole process.
discoveryVars == <<dpc, agentResult, discovered>>

\* The variables of authenticateToWebsite other than the console.
authState == <<pc, analysis, credentials, userInput, result, thrown,
               calls, analysisAt, lastAnalyzer>>

\* The variables of getStagehandInstance and of the context store.
sessionVars == <<spc, stagehandInstance, contextStore, sessionCall,
                 sessionLog, process>>

\* The variables of the create command and of createMCPServer.
coordVars == <<cpc, skipAuth, generatorCalls, createError, exitCode>>

\* The variables of the URL entry: the prompt, its validation, normalizeUrl.
urlVars == <<upc, urlInput, urlValid, urlResult>>

\* The variables of getModel.
modelVars == <<modelEnv, cachedModel, modelLog>>

\* The variables of the generated server.
serverVars == <<serverEnv, stagehand, requests, pages, serverLog>>

\* What a step of authenticateToWebsite or of the analyzer leaves alone.
notAuthVars == <<discoveryVars, sessionVars, coordVars, urlVars, modelVars,
                 serverVars>>

\* What a step of discoverActions leaves alone.
notDiscoveryVars == <<authState, sessionVars, coordVars, urlVars, modelVars,
                      serverVars>>

\* What a step of getStagehandInstance leaves alone.
notSessionVars == <<authState, console, discoveryVars, coordVars, urlVars,
                    modelVars, serverVars>>

\* What a step of the URL entry leaves alone.
notUrlVars == <<authState, console, discoveryVars, sessionVars, coordVars,
                modelVars, serverVars>>

\* What a step of getModel leaves alone, the console apart.
notModelVars == <<authState, discoveryVars, sessionVars, coordVars, urlVars,
                  serverVars>>

\* What a step of the generated server leaves alone, the console apart.
notServerVars == <<authState, discoveryVars, sessionVars, coordVars, urlVars,
                   modelVars>>

vars == <<authState, console, discoveryVars, sessionVars, coordVars,
         urlVars, modelVars, serverVars>>

---------------------------------------------------------------------------
(* Strings.  TLC cannot index into a string, so Chars gives the character  *)
(* sequence of each string the model inspects character by character.      *)

Url == "https://a.io/"

Domain == "a.io"

PageUrls ==
    {"https://a.io/",
     "https://a.io/home",
     "https://a.io/log-in",
     "https://a.io/Login",
     "https://a.io/SIGNIN",
     "https://a.io/sign-in",
     "https://a.io/oauth",
     "https://a.io/Account"}

UserInputs ==
    {"\n", "skip\n", "Skip\n", "  SKIP \n", "\tsKiP", "skipp\n", "s kip\n", "done\n"}

Chars(s) ==
    CASE s = "https://a.io/" -> <<"h", "t", "t", "p", "s", ":", "/", "/", "a", ".", "i", "o", "/">>
      [] s = "https://a.io/home" -> <<"h", "t", "t", "p", "s", ":", "/", "/", "a", ".", "i", "o", "/", "h", "o", "m", "e">>
      [] s = "https://a.io/log-in" -> <<"h", "t", "t", "p", "s", ":", "/", "/", "a", ".", "i", "o", "/", "l", "o", "g", "-", "i", "n">>
      [] s = "https://a.io/Login" -> <<"h", "t", "t", "p", "s", ":", "/", "/", "a", ".", "i", "o", "/", "L", "o", "g", "i", "n">>
      [] s = "https://a.io/SIGNIN" -> <<"h", "t", "t", "p", "s", ":", "/", "/", "a", ".", "i", "o", "/", "S", "I", "G", "N", "I", "N">>
      [] s = "https://a.io/sign-in" -> <<"h", "t", "t", "p", "s", ":", "/", "/", "a", ".", "i", "o", "/", "s", "i", "g", "n", "-", "i", "n">>
      [] s = "https://a.io/oauth" -> <<"h", "t", "t", "p", "s", ":", "/", "/", "a", ".", "i", "o", "/", "o", "a", "u", "t", "h">>
      [] s = "https://a.io/Account" -> <<"h", "t", "t", "p", "s", ":", "/", "/", "a", ".", "i", "o", "/", "A", "c", "c", "o", "u", "n", "t">>
      [] s = "\n" -> <<"\n">>
      [] s = "skip\n" -> <<"s", "k", "i", "p", "\n">>
      [] s = "Skip\n" -> <<"S", "k", "i", "p", "\n">>
      [] s = "  SKIP \n" -> <<" ", " ", "S", "K", "I", "P", " ", "\n">>
      [] s = "\tsKiP" -> <<"\t", "s", "K", "i", "P">>
      [] s = "skipp\n" -> <<"s", "k", "i", "p", "p", "\n">>
      [] s = "s kip\n" -> <<"s", " ", "k", "i", "p", "\n">>
      [] s = "done\n" -> <<"d", "o", "n", "e", "\n">>
      [] s = "Type {q}" -> <<"T", "y", "p", "e", " ", "{", "q", "}">>
      [] s = "Click Open" -> <<"C", "l", "i", "c", "k", " ", "O", "p", "e", "n">>
      [] s = "Click Find" -> <<"C", "l", "i", "c", "k", " ", "F", "i", "n", "d">>
      [] s = "a.io" ->
           <<"a", ".", "i", "o">>
      [] s = "www.a.io" ->
           <<"w", "w", "w", ".", "a", ".", "i", "o">>
      [] s = "https://a.io" ->
           <<"h", "t", "t", "p", "s", ":", "/", "/", "a", ".", "i", "o">>
      [] s = "http://a.io" ->
           <<"h", "t", "t", "p", ":", "/", "/", "a", ".", "i", "o">>
      [] s = "  a.io \n" ->
           <<" ", " ", "a", ".", "i", "o", " ", "\n">>
      [] s = " https://a.io" ->
           <<" ", "h", "t", "t", "p", "s", ":", "/", "/", "a", ".", "i", "o">>
      [] s = "A.IO" ->
           <<"A", ".", "I", "O">>
      [] s = "HTTP://a.io" ->
           <<"H", "T", "T", "P", ":", "/", "/", "a", ".", "i", "o">>
      [] s = "Https://a.io" ->
           <<"H", "t", "t", "p", "s", ":", "/", "/", "a", ".", "i", "o">>
      [] s = "https://A.io/Home" ->
           <<"h", "t", "t", "p", "s", ":", "/", "/", "A", ".", "i", "o", "/", "H", "o", "m", "e">>
      [] s = "a.io/a b" ->
           <<"a", ".", "i", "o", "/", "a", " ", "b">>
      [] s = "a.io:443" ->
           <<"a", ".", "i", "o", ":", "4", "4", "3">>
      [] s = "a.io:8080" ->
           <<"a", ".", "i", "o", ":", "8", "0", "8", "0">>
      [] s = "http://a.io:80" ->
           <<"h", "t", "t", "p", ":", "/", "/", "a", ".", "i", "o", ":", "8", "0">>
      [] s = "a.io:80" ->
           <<"a", ".", "i", "o", ":", "8", "0">>
      [] s = "a.io:" ->
           <<"a", ".", "i", "o", ":">>
      [] s = "a.io:b" ->
           <<"a", ".", "i", "o", ":", "b">>
      [] s = "a.io:99999" ->
           <<"a", ".", "i", "o", ":", "9", "9", "9", "9", "9">>
      [] s = "a.io:0443" ->
           <<"a", ".", "i", "o", ":", "0", "4", "4", "3">>
      [] s = " \t " ->
           <<" ", "\t", " ">>
      [] s = "https://" ->
           <<"h", "t", "t", "p", "s", ":", "/", "/">>
      [] s = "http://" ->
           <<"h", "t", "t", "p", ":", "/", "/">>
      [] s = "a io" ->
           <<"a", " ", "i", "o">>
      [] s = "https://a io" ->
           <<"h", "t", "t", "p", "s", ":", "/", "/", "a", " ", "i", "o">>
      [] s = "https:///a.io" ->
           <<"h", "t", "t", "p", "s", ":", "/", "/", "/", "a", ".", "i", "o">>
      [] s = "a.io?q" ->
           <<"a", ".", "i", "o", "?", "q">>
      [] s = "a.io#f" ->
           <<"a", ".", "i", "o", "#", "f">>
      [] s = "a.io/?" ->
           <<"a", ".", "i", "o", "/", "?">>
      [] s = "a.io/./b/../o" ->
           <<"a", ".", "i", "o", "/", ".", "/", "b", "/", ".", ".", "/", "o">>
      [] s = "a.io/.." ->
           <<"a", ".", "i", "o", "/", ".", ".">>
      [] s = "ftp://a.io" ->
           <<"f", "t", "p", ":", "/", "/", "a", ".", "i", "o">>
      [] s = "http:a.io" ->
           <<"h", "t", "t", "p", ":", "a", ".", "i", "o">>
      [] s = "https:/a.io" ->
           <<"h", "t", "t", "p", "s", ":", "/", "a", ".", "i", "o">>
      [] s = "//a.io" ->
           <<"/", "/", "a", ".", "i", "o">>
      [] s = "/" ->
           <<"/">>
      [] s = "a.io\\o" ->
           <<"a", ".", "i", "o", "\\", "o">>
      [] s = "http://a.io/a?b c#o o" ->
           <<"h", "t", "t", "p", ":", "/", "/", "a", ".", "i", "o", "/", "a", "?", "b", " ", "c", "#", "o", " ", "o">>
      [] s = "a.io/b/" ->
           <<"a", ".", "i", "o", "/", "b", "/">>
      [] s = "openai/gpt-4o" ->
           <<"o", "p", "e", "n", "a", "i", "/", "g", "p", "t", "-", "4", "o">>
      [] s = "anthropic/claude-3-5-sonnet" ->
           <<"a", "n", "t", "h", "r", "o", "p", "i", "c", "/", "c", "l", "a", "u", "d", "e", "-", "3", "-", "5", "-", "s", "o", "n", "n", "e", "t">>
      [] s = "google/gemini-2.5-flash" ->
           <<"g", "o", "o", "g", "l", "e", "/", "g", "e", "m", "i", "n", "i", "-", "2", ".", "5", "-", "f", "l", "a", "s", "h">>
      [] s = "xai/grok-2" ->
           <<"x", "a", "i", "/", "g", "r", "o", "k", "-", "2">>
      [] s = "openai/" ->
           <<"o", "p", "e", "n", "a", "i", "/">>
      [] s = "mistral/large" ->
           <<"m", "i", "s", "t", "r", "a", "l", "/", "l", "a", "r", "g", "e">>
      [] s = "openai" ->
           <<"o", "p", "e", "n", "a", "i">>
      [] s = "OpenAI/gpt-4o" ->
           <<"O", "p", "e", "n", "A", "I", "/", "g", "p", "t", "-", "4", "o">>
      [] s = " openai/gpt-4o" ->
           <<" ", "o", "p", "e", "n", "a", "i", "/", "g", "p", "t", "-", "4", "o">>
      [] s = "gpt-4o" ->
           <<"g", "p", "t", "-", "4", "o">>
      [] s = "xai" ->
           <<"x", "a", "i">>
      [] s = "azure/openai/gpt-4o" ->
           <<"a", "z", "u", "r", "e", "/", "o", "p", "e", "n", "a", "i", "/", "g", "p", "t", "-", "4", "o">>
      [] s = "google/openai/x" ->
           <<"g", "o", "o", "g", "l", "e", "/", "o", "p", "e", "n", "a", "i", "/", "x">>
      [] s = "groq/xai/grok-2" ->
           <<"g", "r", "o", "q", "/", "x", "a", "i", "/", "g", "r", "o", "k", "-", "2">>
      [] s = "anthropic/" ->
           <<"a", "n", "t", "h", "r", "o", "p", "i", "c", "/">>
      [] s = "google/" ->
           <<"g", "o", "o", "g", "l", "e", "/">>
      [] s = "xai/" ->
           <<"x", "a", "i", "/">>
      [] s = "" ->
           <<>>
      [] s = "'''json\n" ->
           <<"'", "'", "'", "j", "s", "o", "n", "\n">>
      [] s = "'''JSON\n" ->
           <<"'", "'", "'", "J", "S", "O", "N", "\n">>
      [] s = "'''\n" ->
           <<"'", "'", "'", "\n">>
      [] s = "'''js\n" ->
           <<"'", "'", "'", "j", "s", "\n">>
      [] s = " \n'''json\n" ->
           <<" ", "\n", "'", "'", "'", "j", "s", "o", "n", "\n">>
      [] s = "Sure:\n'''json\n" ->
           <<"S", "u", "r", "e", ":", "\n", "'", "'", "'", "j", "s", "o", "n", "\n">>
      [] s = "{\"actions\":[]}" ->
           <<"{", "\"", "a", "c", "t", "i", "o", "n", "s", "\"", ":", "[", "]", "}">>
      [] s = "{\"actions\":[{\"name\":\"find\",\"description\":\"Find it\",\"parameters\":[{\"name\":\"q\",\"type\":\"string\",\"description\":\"Query\",\"required\":true}],\"steps\":[\"Type {q}\"]}]}" ->
           <<"{", "\"", "a", "c", "t", "i", "o", "n", "s", "\"", ":", "[", "{", "\"", "n", "a", "m", "e", "\"", ":", "\"", "f", "i", "n", "d", "\"", ",", "\"", "d", "e", "s", "c", "r", "i", "p", "t", "i", "o", "n", "\"", ":", "\"", "F", "i", "n", "d", " ", "i", "t", "\"", ",", "\"", "p", "a", "r", "a", "m", "e", "t", "e", "r", "s", "\"", ":", "[", "{", "\"", "n", "a", "m", "e", "\"", ":", "\"", "q", "\"", ",", "\"", "t", "y", "p", "e", "\"", ":", "\"", "s", "t", "r", "i", "n", "g", "\"", ",", "\"", "d", "e", "s", "c", "r", "i", "p", "t", "i", "o", "n", "\"", ":", "\"", "Q", "u", "e", "r", "y", "\"", ",", "\"", "r", "e", "q", "u", "i", "r", "e", "d", "\"", ":", "t", "r", "u", "e", "}", "]", ",", "\"", "s", "t", "e", "p", "s", "\"", ":", "[", "\"", "T", "y", "p", "e", " ", "{", "q", "}", "\"", "]", "}", "]", "}">>
      [] s = "{\"actions\":[{\"name\":\"open\",\"description\":\"Open it\",\"steps\":[\"Click Open\"]}]}" ->
           <<"{", "\"", "a", "c", "t", "i", "o", "n", "s", "\"", ":", "[", "{", "\"", "n", "a", "m", "e", "\"", ":", "\"", "o", "p", "e", "n", "\"", ",", "\"", "d", "e", "s", "c", "r", "i", "p", "t", "i", "o", "n", "\"", ":", "\"", "O", "p", "e", "n", " ", "i", "t", "\"", ",", "\"", "s", "t", "e", "p", "s", "\"", ":", "[", "\"", "C", "l", "i", "c", "k", " ", "O", "p", "e", "n", "\"", "]", "}", "]", "}">>
      [] s = "{\"actions\":[{\"name\":\"find\",\"description\":\"Find it\",\"parameters\":[{\"name\":\"q\",\"type\":\"number\",\"description\":\"Query\"}],\"steps\":[\"Type {q}\"]}]}" ->
           <<"{", "\"", "a", "c", "t", "i", "o", "n", "s", "\"", ":", "[", "{", "\"", "n", "a", "m", "e", "\"", ":", "\"", "f", "i", "n", "d", "\"", ",", "\"", "d", "e", "s", "c", "r", "i", "p", "t", "i", "o", "n", "\"", ":", "\"", "F", "i", "n", "d", " ", "i", "t", "\"", ",", "\"", "p", "a", "r", "a", "m", "e", "t", "e", "r", "s", "\"", ":", "[", "{", "\"", "n", "a", "m", "e", "\"", ":", "\"", "q", "\"", ",", "\"", "t", "y", "p", "e", "\"", ":", "\"", "n", "u", "m", "b", "e", "r", "\"", ",", "\"", "d", "e", "s", "c", "r", "i", "p", "t", "i", "o", "n", "\"", ":", "\"", "Q", "u", "e", "r", "y", "\"", "}", "]", ",", "\"", "s", "t", "e", "p", "s", "\"", ":", "[", "\"", "T", "y", "p", "e", " ", "{", "q", "}", "\"", "]", "}", "]", "}">>
      [] s = "{\"actions\":[{\"name\":\"open\",\"description\":\"Open it\",\"parameters\":[],\"steps\":[\"Click Open\"]},{\"name\":\"find\",\"parameters\":[],\"steps\":[\"Click Find\"]}]}" ->
           <<"{", "\"", "a", "c", "t", "i", "o", "n", "s", "\"", ":", "[", "{", "\"", "n", "a", "m", "e", "\"", ":", "\"", "o", "p", "e", "n", "\"", ",", "\"", "d", "e", "s", "c", "r", "i", "p", "t", "i", "o", "n", "\"", ":", "\"", "O", "p", "e", "n", " ", "i", "t", "\"", ",", "\"", "p", "a", "r", "a", "m", "e", "t", "e", "r", "s", "\"", ":", "[", "]", ",", "\"", "s", "t", "e", "p", "s", "\"", ":", "[", "\"", "C", "l", "i", "c", "k", " ", "O", "p", "e", "n", "\"", "]", "}", ",", "{", "\"", "n", "a", "m", "e", "\"", ":", "\"", "f", "i", "n", "d", "\"", ",", "\"", "p", "a", "r", "a", "m", "e", "t", "e", "r", "s", "\"", ":", "[", "]", ",", "\"", "s", "t", "e", "p", "s", "\"", ":", "[", "\"", "C", "l", "i", "c", "k", " ", "F", "i", "n", "d", "\"", "]", "}", "]", "}">>
      [] s = "{\"actions\":[{\"name\":\"find\",\"description\":\"Find it\",\"parameters\":[{\"name\":\"q\",\"type\":\"date\",\"description\":\"Query\",\"required\":true}],\"steps\":[\"Type {q}\"]}]}" ->
           <<"{", "\"", "a", "c", "t", "i", "o", "n", "s", "\"", ":", "[", "{", "\"", "n", "a", "m", "e", "\"", ":", "\"", "f", "i", "n", "d", "\"", ",", "\"", "d", "e", "s", "c", "r", "i", "p", "t", "i", "o", "n", "\"", ":", "\"", "F", "i", "n", "d", " ", "i", "t", "\"", ",", "\"", "p", "a", "r", "a", "m", "e", "t", "e", "r", "s", "\"", ":", "[", "{", "\"", "n", "a", "m", "e", "\"", ":", "\"", "q", "\"", ",", "\"", "t", "y", "p", "e", "\"", ":", "\"", "d", "a", "t", "e", "\"", ",", "\"", "d", "e", "s", "c", "r", "i", "p", "t", "i", "o", "n", "\"", ":", "\"", "Q", "u", "e", "r", "y", "\"", ",", "\"", "r", "e", "q", "u", "i", "r", "e", "d", "\"", ":", "t", "r", "u", "e", "}", "]", ",", "\"", "s", "t", "e", "p", "s", "\"", ":", "[", "\"", "T", "y", "p", "e", " ", "{", "q", "}", "\"", "]", "}", "]", "}">>
      [] s = "{\"actions\":[{\"name\":\"find\",\"description\":\"Find it\",\"parameters\":[],\"steps\":[\"Type {q}\"]}]}" ->
           <<"{", "\"", "a", "c", "t", "i", "o", "n", "s", "\"", ":", "[", "{", "\"", "n", "a", "m", "e", "\"", ":", "\"", "f", "i", "n", "d", "\"", ",", "\"", "d", "e", "s", "c", "r", "i", "p", "t", "i", "o", "n", "\"", ":", "\"", "F", "i", "n", "d", " ", "i", "t", "\"", ",", "\"", "p", "a", "r", "a", "m", "e", "t", "e", "r", "s", "\"", ":", "[", "]", ",", "\"", "s", "t", "e", "p", "s", "\"", ":", "[", "\"", "T", "y", "p", "e", " ", "{", "q", "}", "\"", "]", "}", "]", "}">>
      [] s = "{ \"actions\" : [ {\"name\":\"list\",\"description\":\"List it\",\"parameters\":[],\"steps\":[],\"extractionSchema\":{\"rows\":\"array\"},\"note\":1} ] }" ->
           <<"{", " ", "\"", "a", "c", "t", "i", "o", "n", "s", "\"", " ", ":", " ", "[", " ", "{", "\"", "n", "a", "m", "e", "\"", ":", "\"", "l", "i", "s", "t", "\"", ",", "\"", "d", "e", "s", "c", "r", "i", "p", "t", "i", "o", "n", "\"", ":", "\"", "L", "i", "s", "t", " ", "i", "t", "\"", ",", "\"", "p", "a", "r", "a", "m", "e", "t", "e", "r", "s", "\"", ":", "[", "]", ",", "\"", "s", "t", "e", "p", "s", "\"", ":", "[", "]", ",", "\"", "e", "x", "t", "r", "a", "c", "t", "i", "o", "n", "S", "c", "h", "e", "m", "a", "\"", ":", "{", "\"", "r", "o", "w", "s", "\"", ":", "\"", "a", "r", "r", "a", "y", "\"", "}", ",", "\"", "n", "o", "t", "e", "\"", ":", "1", "}", " ", "]", " ", "}">>
      [] s = "[]" ->
           <<"[", "]">>
      [] s = "{\"acts\":[]}" ->
           <<"{", "\"", "a", "c", "t", "s", "\"", ":", "[", "]", "}">>
      [] s = "I found no actions" ->
           <<"I", " ", "f", "o", "u", "n", "d", " ", "n", "o", " ", "a", "c", "t", "i", "o", "n", "s">>
      [] s = "{\"actions\":[" ->
           <<"{", "\"", "a", "c", "t", "i", "o", "n", "s", "\"", ":", "[">>
      [] s = "\n'''" ->
           <<"\n", "'", "'", "'">>
      [] s = "\n'''\n " ->
           <<"\n", "'", "'", "'", "\n", " ">>
      [] s = "'''" ->
           <<"'", "'", "'">>
      [] s = "ctx-saved" ->
           <<"c", "t", "x", "-", "s", "a", "v", "e", "d">>
      [] s = "ctx-saved\n" ->
           <<"c", "t", "x", "-", "s", "a", "v", "e", "d", "\n">>
      [] s = " \n" ->
           <<" ", "\n">>
      [] s = "about:blank" ->
           <<"a", "b", "o", "u", "t", ":", "b", "l", "a", "n", "k">>
      [] s = "https://news.ycombinator.com/" ->
           <<"h", "t", "t", "p", "s", ":", "/", "/", "n", "e", "w", "s", ".", "y", "c", "o", "m", "b", "i", "n", "a", "t", "o", "r", ".", "c", "o", "m", "/">>
      [] s = "https://news.ycombinator.com/newest" ->
           <<"h", "t", "t", "p", "s", ":", "/", "/", "n", "e", "w", "s", ".", "y", "c", "o", "m", "b", "i", "n", "a", "t", "o", "r", ".", "c", "o", "m", "/", "n", "e", "w", "e", "s", "t">>
      [] s = "https://hn.algolia.com/" ->
           <<"h", "t", "t", "p", "s", ":", "/", "/", "h", "n", ".", "a", "l", "g", "o", "l", "i", "a", ".", "c", "o", "m", "/">>

\* The grave accent (U+0060) of a Markdown fence.  A TLA+ string cannot hold
\* that character, so the apostrophe, which no text of the model uses
\* otherwise, stands for it in every string and character sequence.
Grave == "'"

\* The string of a character sequence.
RECURSIVE Text(_)
Text(cs) == IF cs = << >> THEN "" ELSE Head(cs) \o Text(Tail(cs))

\* String.prototype.toLowerCase on one character (the letters the model uses).
LowerChar(c) ==
    CASE c = "A" -> "a" [] c = "C" -> "c" [] c = "G" -> "g" [] c = "I" -> "i"
      [] c = "H" -> "h" [] c = "T" -> "t"
      [] c = "J" -> "j" [] c = "K" -> "k" [] c = "L" -> "l" [] c = "N" -> "n"
      [] c = "O" -> "o" [] c = "P" -> "p" [] c = "S" -> "s" [] OTHER -> c

toLowerCase(cs) == [i \in 1..Len(cs) |-> LowerChar(cs[i])]

WhiteSpace == {" ", "\t", "\n", "\r"}

\* String.prototype.trim: drop the white space at both ends.
RECURSIVE trimStart(_)
trimStart(cs) ==
    IF cs # << >> /\ Head(cs) \in WhiteSpace THEN trimStart(Tail(cs)) ELSE cs

RECURSIVE trimEnd(_)
trimEnd(cs) ==
    IF cs # << >> /\ cs[Len(cs)] \in WhiteSpace
    THEN trimEnd(SubSeq(cs, 1, Len(cs) - 1))
    ELSE cs

trim(cs) == trimEnd(trimStart(cs))

\* JavaScript truthiness of an optional string / an optional boolean.
TruthyString(opt) == opt # << >> /\ opt[1] # ""

TruthyBool(opt) == opt # << >> /\ opt[1]

---------------------------------------------------------------------------
(* Values raised.  instanceOfError tells an Error object from another      *)
(* thrown value; message is error.message (or the value itself).           *)

Err(isErr, msg) == [instanceOfError |-> isErr, message |-> msg]

\* `error instanceof Error ? error.message : error`
ErrorText(e) == e.message

ExtractErrors ==
    {Err(TRUE, "extract request failed"),
     Err(TRUE, "response failed schema validation"),
     Err(FALSE, "extract aborted")}

ActErrors == {Err(TRUE, "act failed")}

---------------------------------------------------------------------------
(* AuthAnalysis and the analyzer.                                          *)

\* The fields of AuthAnalysisSchema that authenticateToWebsite and the
\* analyzer read or write; recommendedStrategy, steps, blockers and mfa are
\* optional, passed through untouched and never read.  A summary is a
\* sequence of string parts, like a console line.
AuthAnalyses ==
    [requiresAuth : BOOLEAN,
     loginButton  : {<< >>, <<"">>, <<"Click the Sign In button">>},
     canAutofill  : {<< >>, <<TRUE>>, <<FALSE>>},
     summary      : {<< >>, << <<"Sign-in form found">> >>}]

NoAnalysis ==
    [requiresAuth |-> FALSE, loginButton |-> << >>, canAutofill |-> << >>,
     summary |-> << >>]

\* What stagehand.extract(instruction, AuthAnalysisSchema) can do: resolve
\* with an object that satisfies the schema, or reject.
ExtractOutcomes ==
    {[threw |-> FALSE, value |-> a, error |-> Err(FALSE, "")] : a \in AuthAnalyses}
    \cup {[threw |-> TRUE, value |-> NoAnalysis, error |-> e] : e \in ExtractErrors}

\* The pages and extract outcomes a run of authenticateToWebsite meets: one
\* page of each heuristic class, every combination of the fields the run
\* reads, and a rejected extract.
RunPageUrls == {"https://a.io/home", "https://a.io/Login"}

RunExtractOutcomes ==
    {x \in ExtractOutcomes :
        IF x.threw
        THEN x.error = Err(TRUE, "extract request failed")
        ELSE /\ x.value.summary = << >>
             /\ x.value.loginButton # <<"">>}

\* The alternatives of /login|signin|auth|sign-in|account/i.
LoginPattern ==
    {<<"l", "o", "g", "i", "n">>,
     <<"s", "i", "g", "n", "i", "n">>,
     <<"a", "u", "t", "h">>,
     <<"s", "i", "g", "n", "-", "i", "n">>,
     <<"a", "c", "c", "o", "u", "n", "t">>}

\* A variant of MatchesAt without the i flag: the comparison is exact.
MatchesAt_caseSensitive(cs, alt, i) ==
    /\ i + Len(alt) - 1 <= Len(cs)
    /\ \A j \in 1..Len(alt) : cs[i + j - 1] = alt[j]

\* An alternative matches at position i, ignoring case (the i flag).
MatchesAt(cs, alt, i) ==
    /\ i + Len(alt) - 1 <= Len(cs)
    /\ \A j \in 1..Len(alt) : LowerChar(cs[i + j - 1]) = LowerChar(alt[j])

\* /login|signin|auth|sign-in|account/i.test(url): an unanchored search.
LoginPatternTest(url) ==
    \E i \in 1..Len(Chars(url)) :
        \E alt \in LoginPattern : MatchesAt(Chars(url), alt, i)

HeuristicSummary(e) ==
    IF e.instanceOfError
    THEN <<"Heuristic result after extract error: ", e.message>>
    ELSE <<"Heuristic result after extract error.">>

\* The catch block of analyzeAuthenticationState.
HeuristicAnalysis(url, e) ==
    [requiresAuth |-> LoginPatternTest(url),
     loginButton  |-> << >>,
     canAutofill  |-> << >>,
     summary      |-> <<HeuristicSummary(e)>>]

\* A completed call: it returned `value`, or raised `error`.
Returned(a) == [threw |-> FALSE, value |-> a, error |-> Err(FALSE, "")]

Raised(e) == [threw |-> TRUE, value |-> NoAnalysis, error |-> e]

\* A variant of the analyzer without its try/catch: a rejected extract
\* propagates to the caller.
analyzeAuthenticationState_noCatch(extract, url) ==
    IF extract.threw THEN Raised(extract.error) ELSE Returned(extract.value)

\* analyzeAuthenticationState(stagehand, page), given what extract does and
\* what page.url() is.
analyzeAuthenticationState(extract, url) ==
    IF extract.threw
    THEN Returned(HeuristicAnalysis(url, extract.error))
    ELSE Returned(extract.value)

---------------------------------------------------------------------------
(* Collaborators of authenticateToWebsite.                                 *)

\* stagehand.browserbaseSessionId; getStagehandInstance always creates the
\* handle with env "BROWSERBASE" and awaits init(), which sets it.
browserbaseSessionId == <<"sess-1">>

StoredCredentials ==
    {[username |-> "alice", password |-> "pw-1"],
     [username |-> "alice", password |-> "pw-2"]}

\* What the vault does for a lookup.
LookupOutcomes ==
    {[kind |-> "found", entry |-> c] : c \in StoredCredentials}
    \cup {[kind |-> k, entry |-> [username |-> "", password |-> ""]] :
            k \in {"noEntry", "vaultUnreachable"}}

\* lookupCredentialsIn1Password(domain): the stored entry, or absent when
\* there is no entry or the vault cannot be reached; it never raises.
lookupCredentialsIn1Password(o) ==
    IF o.kind = "found" THEN <<o.entry>> ELSE << >>

\* How console.log renders its second argument `credentials`.
InspectCredentials(c) ==
    IF c = << >>
    THEN <<"null">>
    ELSE <<"{ username: '", c[1].username, "', password: '", c[1].password,
           "' }">>

NavigationErrors == {Err(TRUE, "net::ERR_CONNECTION_RESET")}

DebugApiErrors == {Err(TRUE, "Connection error.")}

NoActivePage ==
    Err(TRUE, "Unable to locate an active browser page for authentication.")

NoSession == Err(TRUE, "No active Browserbase session")

AuthenticationIncomplete ==
    Err(TRUE, "Authentication still required after manual verification. Please sign in and re-run the command.")

\* The property access credentials.username on null.
NullAccess == Err(TRUE, "Cannot read properties of null")

\* One call in the history: what was called, from which step of the run,
\* with what, and how it ended.
Call(op, site, arg, outcome) ==
    [op |-> op, site |-> site, arg |-> arg, outcome |-> outcome]

\* A variant of NoLoginNeeded that never short-circuits.
NoLoginNeeded_never(a) == FALSE

\* `!analysis.requiresAuth` of line 34.
NoLoginNeeded(a) == ~a.requiresAuth

\* `analysis.loginButton` used as a condition.
HasLoginButton(a) == TruthyString(a.loginButton)

\* Variants of the autofill condition that drop one conjunct.
ShouldAutofill_ignoreCredentials(c, a) == TruthyBool(a.canAutofill)

ShouldAutofill_ignoreCanAutofill(c, a) == c # << >>

\* `credentials && analysis.canAutofill`
ShouldAutofill(c, a) == c # << >> /\ TruthyBool(a.canAutofill)

\* A variant of IsSkip that forgets to trim.
IsSkip_noTrim(input) ==
    toLowerCase(Chars(input)) = <<"s", "k", "i", "p">>

\* `userInput.toLowerCase().trim() === "skip"`
IsSkip(input) ==
    trim(toLowerCase(Chars(input))) = <<"s", "k", "i", "p">>

---------------------------------------------------------------------------
(* authenticateToWebsite.                                                  *)

\* The record of one analyzer invocation: what extract did, the page URL if
\* page.url() was read (only the catch block reads it), and how it ended.
AnalyzerRecord(at, x, u, r) ==
    [called |-> TRUE, at |-> at, extract |-> x,
     url |-> IF x.threw THEN <<u>> ELSE << >>, completion |-> r]

NotAnalyzed ==
    [called |-> FALSE, at |-> "none", extract |-> Returned(NoAnalysis),
     url |-> << >>, completion |-> Returned(NoAnalysis)]

\* No discoverActions call is in progress.
NoAgentResult == [kind |-> "none", pre |-> "", body |-> "", post |-> ""]

\* An error with the name of its class ("": a thrown value that is no Error).
NamedErr(name, msg) ==
    [instanceOfError |-> name # "", name |-> name, message |-> msg]

NoErr == NamedErr("", "")

NotDiscovered ==
    [stage |-> "none", threw |-> FALSE, actions |-> << >>, error |-> NoErr,
     cause |-> NoErr, jsonString |-> << >>]

DiscoveryIdle ==
    /\ dpc = "idle"
    /\ agentResult = NoAgentResult
    /\ discovered = NotDiscovered

\* The domains sites are created for.
Domains == {Domain, "b.io"}

\* No process has called getStagehandInstance and nothing is persisted.
NoSessionCall ==
    [fn |-> "none", domain |-> "", config |-> "", persistContext |-> << >>,
     outcome |-> "none", handle |-> << >>, error |-> ""]

SessionIdle ==
    /\ spc = "idle"
    /\ stagehandInstance = << >>
    /\ contextStore = [d \in Domains |-> << >>]
    /\ sessionCall = NoSessionCall
    /\ sessionLog = << >>
    /\ process = 1

\* No create command is running.
CoordIdle ==
    /\ cpc = "idle"
    /\ skipAuth = FALSE
    /\ generatorCalls = << >>
    /\ createError = << >>
    /\ exitCode = << >>

NoUrl ==
    [protocol |-> << >>, hostname |-> << >>, port |-> << >>,
     pathname |-> << >>, search |-> << >>, hash |-> << >>]

NoUrlResult == [threw |-> FALSE, url |-> NoUrl, message |-> ""]

\* No URL is being entered.
UrlIdle ==
    /\ upc = "idle"
    /\ urlInput = ""
    /\ urlValid = << >>
    /\ urlResult = NoUrlResult

NoModelEnv == [MODEL_PROVIDER |-> "", MODEL_API_KEY |-> ""]

\* getModel has not been called.
ModelIdle ==
    /\ modelEnv = NoModelEnv
    /\ cachedModel = << >>
    /\ modelLog = << >>

MaxRequests == 2

Requests == 1..MaxRequests

NoRequest ==
    [pc |-> "none", contextId |-> << >>, made |-> 0, handle |-> 0,
     error |-> "", name |-> "", arguments |-> {}, at |-> 0, did |-> {},
     seen |-> "", caught |-> "", response |-> << >>]

NoServerEnv == [BROWSERBASE_CONTEXT_ID |-> "", saved |-> << >>]

\* No generated server is running.
ServerIdle ==
    /\ serverEnv = NoServerEnv
    /\ stagehand = << >>
    /\ requests = [r \in Requests |-> NoRequest]
    /\ pages = << >>
    /\ serverLog = << >>

NotAuthIdle ==
    /\ DiscoveryIdle
    /\ SessionIdle
    /\ CoordIdle
    /\ UrlIdle
    /\ ModelIdle
    /\ ServerIdle

Init ==
    /\ pc = "awaitActivePage"
    /\ NotAuthIdle
    /\ analysis = NoAnalysis
    /\ credentials = << >>
    /\ userInput = << >>
    /\ result = "none"
    /\ thrown = << >>
    /\ console = << >>
    /\ calls = << >>
    /\ analysisAt = 0
    /\ lastAnalyzer = NotAnalyzed

\* The run raises e.
Throw(e) ==
    /\ result' = "Failed"
    /\ thrown' = <<e>>
    /\ pc' = "done"

\* The run returns.
Return(how) ==
    /\ result' = how
    /\ thrown' = << >>
    /\ pc' = "done"

Goto(next) ==
    /\ pc' = next
    /\ UNCHANGED <<result, thrown>>

\* The calls one analyzer invocation issues, and its record.
Analyzer(at, x, u, r) ==
    /\ calls' = calls \o <<Call("setActivePage", at, "", "returned"),
                           Call("extract", at, "AuthAnalysisSchema",
                                IF x.threw THEN "raised" ELSE "returned"),
                           Call("analyzeAuthenticationState", at, "",
                                IF r.threw THEN "raised" ELSE "returned")>>
    /\ lastAnalyzer' = AnalyzerRecord(at, x, u, r)

\* `analysis = await analyzeAuthenticationState(...)` completed normally.
Assign(a) ==
    /\ analysis' = a
    /\ analysisAt' = Len(calls')

\* lines 19-28
AwaitActivePage ==
    /\ pc = "awaitActivePage"
    /\ UNCHANGED notAuthVars
    /\ \E ok \in BOOLEAN :
        /\ calls' = Append(calls, Call("awaitActivePage", "start", "10000",
                                       IF ok THEN "returned" ELSE "raised"))
        /\ IF ok THEN Goto("gotoInitial") ELSE Throw(NoActivePage)
    /\ UNCHANGED <<analysis, credentials, userInput, console,
                   analysisAt, lastAnalyzer>>

\* line 30
GotoInitial ==
    /\ pc = "gotoInitial"
    /\ UNCHANGED notAuthVars
    /\ \/ /\ calls' = Append(calls, Call("goto", "initial", Url, "returned"))
          /\ Goto("analyzeInitial")
       \/ \E e \in NavigationErrors :
            /\ calls' = Append(calls, Call("goto", "initial", Url, "raised"))
            /\ Throw(e)
    /\ UNCHANGED <<analysis, credentials, userInput, console, analysisAt,
                   lastAnalyzer>>

\* lines 32-39.  logAuthenticationAnalysis (analysis.js) prints a rendering
\* of the analysis; its lines are not part of the model.
AnalyzeInitial ==
    /\ pc = "analyzeInitial"
    /\ UNCHANGED notAuthVars
    /\ \E x \in RunExtractOutcomes, u \in RunPageUrls :
        LET r == analyzeAuthenticationState(x, u) IN
        /\ Analyzer("initial", x, u, r)
        /\ IF r.threw
           THEN /\ Throw(r.error)
                /\ UNCHANGED <<analysis, analysisAt, console>>
           ELSE /\ Assign(r.value)
                /\ IF NoLoginNeeded(r.value)
                   THEN /\ console' = Append(console,
                                             <<"No authentication required.">>)
                        /\ Return("Verified")
                   ELSE /\ console' = console
                        /\ Goto("lookup")
    /\ UNCHANGED <<credentials, userInput>>

\* lines 41-45
LookupCredentials ==
    /\ pc = "lookup"
    /\ UNCHANGED notAuthVars
    /\ \E o \in LookupOutcomes :
        /\ calls' = Append(calls,
                           Call("lookupCredentialsIn1Password", "lookup",
                                Domain, o.kind))
        /\ credentials' = lookupCredentialsIn1Password(o)
        /\ console' = Append(console, <<"Credentials from 1Password:">>
                                      \o InspectCredentials(credentials'))
    /\ Goto(IF HasLoginButton(analysis) THEN "clickLogin" ELSE "autofill")
    /\ UNCHANGED <<analysis, userInput, analysisAt, lastAnalyzer>>

\* The catch block of lines 52-58.
ClickFailed(e) ==
    <<"Failed to click login button: ", ErrorText(e)>>

\* A variant of the click step without its try/catch: a failed click ends
\* the run.
ClickLogin_noCatch ==
    /\ pc = "clickLogin"
    /\ UNCHANGED notAuthVars
    /\ \/ /\ calls' = Append(calls, Call("act", "click",
                                         analysis.loginButton[1], "returned"))
            /\ console' = Append(console, <<"Clicking login button: \"",
                                            analysis.loginButton[1], "\"">>)
            /\ Goto("clickIdle")
       \/ \E e \in ActErrors :
            /\ calls' = Append(calls, Call("act", "click",
                                         analysis.loginButton[1], "raised"))
            /\ console' = Append(console, <<"Clicking login button: \"",
                                            analysis.loginButton[1], "\"">>)
            /\ Throw(e)
    /\ UNCHANGED <<analysis, credentials, userInput, analysisAt, lastAnalyzer>>

\* lines 46-48 and 52-58: the click itself.
ClickLogin ==
    /\ pc = "clickLogin"
    /\ UNCHANGED notAuthVars
    /\ \/ /\ calls' = Append(calls, Call("act", "click",
                                         analysis.loginButton[1], "returned"))
            /\ console' = Append(console, <<"Clicking login button: \"",
                                            analysis.loginButton[1], "\"">>)
            /\ Goto("clickIdle")
       \/ \E e \in ActErrors :
            /\ calls' = Append(calls, Call("act", "click",
                                         analysis.loginButton[1], "raised"))
            /\ console' = console
                            \o << <<"Clicking login button: \"",
                                    analysis.loginButton[1], "\"">>,
                                  ClickFailed(e) >>
            /\ Goto("autofill")
    /\ UNCHANGED <<analysis, credentials, userInput, analysisAt, lastAnalyzer>>

\* A variant of the wait without .catch(() => {}): a failed wait lands in
\* the catch block of the click and the re-analysis is not reached.
ClickIdle_noCatch ==
    /\ pc = "clickIdle"
    /\ UNCHANGED notAuthVars
    /\ \/ /\ calls' = Append(calls, Call("waitForLoadState", "click",
                                         "networkidle 5000", "returned"))
          /\ console' = console
          /\ Goto("analyzePostClick")
       \/ /\ calls' = Append(calls, Call("waitForLoadState", "click",
                                         "networkidle 5000", "raised"))
          /\ console' = Append(console,
                               ClickFailed(Err(TRUE, "Timeout 5000ms exceeded")))
          /\ Goto("autofill")
    /\ UNCHANGED <<analysis, credentials, userInput, analysisAt, lastAnalyzer>>

\* line 49: the wait's own failure is dropped by .catch(() => {}).
ClickIdle ==
    /\ pc = "clickIdle"
    /\ UNCHANGED notAuthVars
    /\ \E o \in {"returned", "raised"} :
        calls' = Append(calls, Call("waitForLoadState", "click",
                             "networkidle 5000", o))
    /\ Goto("analyzePostClick")
    /\ UNCHANGED <<analysis, credentials, userInput, console,
                   analysisAt, lastAnalyzer>>

\* A variant of the post-click step that keeps the pre-click analysis.
AnalyzePostClick_skipped ==
    /\ pc = "analyzePostClick"
    /\ UNCHANGED notAuthVars
    /\ Goto("autofill")
    /\ UNCHANGED <<analysis, credentials, userInput, console, calls,
                   analysisAt, lastAnalyzer>>

\* lines 50-51 (inside the try of the click).
AnalyzePostClick ==
    /\ pc = "analyzePostClick"
    /\ UNCHANGED notAuthVars
    /\ \E x \in RunExtractOutcomes, u \in RunPageUrls :
        LET r == analyzeAuthenticationState(x, u) IN
        /\ Analyzer("postClick", x, u, r)
        /\ IF r.threw
           THEN /\ console' = Append(console, ClickFailed(r.error))
                /\ UNCHANGED <<analysis, analysisAt>>
           ELSE /\ Assign(r.value)
                /\ console' = console
    /\ Goto("autofill")
    /\ UNCHANGED <<credentials, userInput>>

\* lines 61-65
AutofillDecision ==
    /\ pc = "autofill"
    /\ UNCHANGED notAuthVars
    /\ IF ShouldAutofill(credentials, analysis)
       THEN /\ console' = Append(console,
                <<"Attempting automatic login with 1Password credentials...">>)
            /\ Goto("typeUsername")
       ELSE /\ console' = console
            /\ Goto("manual")
    /\ UNCHANGED <<analysis, credentials, userInput, calls,
                   analysisAt, lastAnalyzer>>

\* A variant of the autofill catch block that lets the failure escape.
AutofillFailed_rethrow(e) ==
    /\ console' = console
    /\ Throw(e)

\* A variant of the autofill catch block that starts the autofill again.
AutofillFailed_retry(e) ==
    /\ console' = console \o << <<"Automatic login failed: ", ErrorText(e)>>,
                               <<"Retrying automatic login...">> >>
    /\ Goto("typeUsername")

\* The catch block of lines 90-97.
AutofillFailed(e) ==
    /\ console' = console \o << <<"Automatic login failed: ", ErrorText(e)>>,
                               <<"Falling back to manual authentication...">> >>
    /\ Goto("manual")

\* One stagehand.act call of the autofill try block.
AutofillAct(site, what, next) ==
    \/ /\ calls' = Append(calls, Call("act", site, what, "returned"))
       /\ console' = console
       /\ Goto(next)
    \/ \E e \in ActErrors :
        /\ calls' = Append(calls, Call("act", site, what, "raised"))
        /\ AutofillFailed(e)

\* lines 68-70
TypeUsername ==
    /\ pc = "typeUsername"
    /\ UNCHANGED notAuthVars
    /\ IF credentials = << >>
       THEN AutofillFailed(NullAccess) /\ calls' = calls
       ELSE AutofillAct("username", "Type \"" \o credentials[1].username
                        \o "\" into the username or email field",
                        "typePassword")
    /\ UNCHANGED <<analysis, credentials, userInput, analysisAt,
                   lastAnalyzer>>

\* lines 71-73
TypePassword ==
    /\ pc = "typePassword"
    /\ UNCHANGED notAuthVars
    /\ AutofillAct("password", "Type \"" \o credentials[1].password
                   \o "\" into the password field",
                   "clickSubmit")
    /\ UNCHANGED <<analysis, credentials, userInput, analysisAt,
                   lastAnalyzer>>

\* line 74: the submit may navigate.
ClickSubmit ==
    /\ pc = "clickSubmit"
    /\ UNCHANGED notAuthVars
    /\ AutofillAct("submit", "Click the login or sign in button",
                   "autofillIdle")
    /\ UNCHANGED <<analysis, credentials, userInput, analysisAt, lastAnalyzer>>

\* lines 76-77
AutofillIdle ==
    /\ pc = "autofillIdle"
    /\ UNCHANGED notAuthVars
    /\ \E o \in {"returned", "raised"} :
        calls' = Append(calls, Call("waitForLoadState", "autofill",
                             "networkidle 10000", o))
    /\ Goto("analyzePostAutofill")
    /\ UNCHANGED <<analysis, credentials, userInput, console,
                   analysisAt, lastAnalyzer>>

\* lines 79-89
AnalyzePostAutofill ==
    /\ pc = "analyzePostAutofill"
    /\ UNCHANGED notAuthVars
    /\ \E x \in RunExtractOutcomes, u \in RunPageUrls :
        LET r == analyzeAuthenticationState(x, u) IN
        /\ Analyzer("postAutofill", x, u, r)
        /\ IF r.threw
           THEN /\ AutofillFailed(r.error)
                /\ UNCHANGED <<analysis, analysisAt>>
           ELSE /\ Assign(r.value)
                /\ IF ~r.value.requiresAuth
                   THEN /\ console' = Append(console,
                                             <<"Automatic login successful!">>)
                        /\ Return("Verified")
                   ELSE /\ console' = Append(console,
                            <<"Automatic login may have failed, falling back to manual authentication">>)
                        /\ Goto("manual")
    /\ UNCHANGED <<credentials, userInput>>

\* getDebugUrl(stagehand)
getDebugUrl(sessionId) ==
    IF sessionId = << >>
    THEN [threw |-> TRUE, value |-> "", error |-> NoSession]
    ELSE [threw |-> FALSE,
          value |-> "https://browserbase.com/sessions/" \o sessionId[1],
          error |-> Err(FALSE, "")]

\* lines 100-111 with openDebuggerUrl (helpers.ts 26-41): the call to
\* browserbase.sessions.debug is awaited unguarded, exec is not awaited.
OpenSessionViewer ==
    /\ pc = "manual"
    /\ UNCHANGED notAuthVars
    /\ LET d == getDebugUrl(browserbaseSessionId)
           opening == <<"Opening browser session for authentication...">>
       IN
       IF d.threw
       THEN /\ console' = Append(console, opening)
            /\ calls' = calls
            /\ Throw(d.error)
       ELSE
         \/ /\ calls' = calls
                  \o <<Call("sessions.debug", "manual",
                            browserbaseSessionId[1], "returned"),
                       Call("exec", "manual", "open debuggerFullscreenUrl",
                            "returned")>>
            /\ console' = console \o
                 << opening,
                    <<"Debug URL: ", d.value>>,
                    <<"Please log in to the website in the browser window that just opened.">>,
                    <<"Once you're logged in, press Enter to continue (or type 'skip' to skip authentication)...">> >>
            /\ Goto("waitInput")
         \/ \E e \in DebugApiErrors :
            /\ calls' = Append(calls,
                   Call("sessions.debug", "manual",
                        browserbaseSessionId[1], "raised"))
            /\ console' = console \o
                 << opening,
                    <<"Debug URL: ", d.value>>,
                    <<"Please log in to the website in the browser window that just opened.">> >>
            /\ Throw(e)
    /\ UNCHANGED <<analysis, credentials, userInput, analysisAt,
                   lastAnalyzer>>

\* lines 112-115 with waitForUserInput (helpers.ts 7-13): one chunk of
\* standard input; meanwhile the operator may have moved the page.
WaitForUserInput ==
    /\ pc = "waitInput"
    /\ UNCHANGED notAuthVars
    /\ \E in \in UserInputs :
        /\ userInput' = <<in>>
        /\ calls' = Append(calls, Call("waitForUserInput", "manual", "", "returned"))
        /\ IF IsSkip(in)
           THEN /\ console' = Append(console,
                    <<"Skipping authentication, returning to original page...">>)
                /\ Goto("gotoSkip")
           ELSE /\ console' = console
                /\ Goto("analyzeFinal")
    /\ UNCHANGED <<analysis, credentials, analysisAt, lastAnalyzer>>

\* lines 116-117
GotoSkip ==
    /\ pc = "gotoSkip"
    /\ UNCHANGED notAuthVars
    /\ \/ /\ calls' = Append(calls, Call("goto", "skip", Url, "returned"))
          /\ Return("Skipped")
       \/ \E e \in NavigationErrors :
            /\ calls' = Append(calls, Call("goto", "skip", Url, "raised"))
            /\ Throw(e)
    /\ UNCHANGED <<analysis, credentials, userInput, console, analysisAt,
                   lastAnalyzer>>

\* A variant of the final step that accepts whatever the analysis says.
AnalyzeFinal_alwaysVerified ==
    /\ pc = "analyzeFinal"
    /\ UNCHANGED notAuthVars
    /\ \E x \in RunExtractOutcomes, u \in RunPageUrls :
        LET r == analyzeAuthenticationState(x, u) IN
        /\ Analyzer("final", x, u, r)
        /\ Assign(r.value)
        /\ console' = Append(console, <<"Authentication confirmed.">>)
        /\ Return("Verified")
    /\ UNCHANGED <<credentials, userInput>>

\* A variant of the final step that asks the operator again while the
\* analysis still requires authentication.
AnalyzeFinal_retry ==
    /\ pc = "analyzeFinal"
    /\ UNCHANGED notAuthVars
    /\ \E x \in RunExtractOutcomes, u \in RunPageUrls :
        LET r == analyzeAuthenticationState(x, u) IN
        /\ Analyzer("final", x, u, r)
        /\ IF r.threw
           THEN /\ Throw(r.error)
                /\ UNCHANGED <<analysis, analysisAt, console>>
           ELSE /\ Assign(r.value)
                /\ IF r.value.requiresAuth
                   THEN /\ console' = console
                        /\ Goto("manual")
                   ELSE /\ console' = Append(console,
                                             <<"Authentication confirmed.">>)
                        /\ Return("Verified")
    /\ UNCHANGED <<credentials, userInput>>

\* lines 120-129
AnalyzeFinal ==
    /\ pc = "analyzeFinal"
    /\ UNCHANGED notAuthVars
    /\ \E x \in RunExtractOutcomes, u \in RunPageUrls :
        LET r == analyzeAuthenticationState(x, u) IN
        /\ Analyzer("final", x, u, r)
        /\ IF r.threw
           THEN /\ Throw(r.error)
                /\ UNCHANGED <<analysis, analysisAt, console>>
           ELSE /\ Assign(r.value)
                /\ IF r.value.requiresAuth
                   THEN /\ console' = console
                        /\ Throw(AuthenticationIncomplete)
                   ELSE /\ console' = Append(console,
                                             <<"Authentication confirmed.">>)
                        /\ Return("Verified")
    /\ UNCHANGED <<credentials, userInput>>

Next ==
    \/ AwaitActivePage
    \/ GotoInitial
    \/ AnalyzeInitial
    \/ LookupCredentials
    \/ ClickLogin
    \/ ClickIdle
    \/ AnalyzePostClick
    \/ AutofillDecision
    \/ TypeUsername
    \/ TypePassword
    \/ ClickSubmit
    \/ AutofillIdle
    \/ AnalyzePostAutofill
    \/ OpenSessionViewer
    \/ WaitForUserInput
    \/ GotoSkip
    \/ AnalyzeFinal

Spec == Init /\ [][Next]_vars

\* Every automation and model call returns or raises, and the operator
\* enters a line: a run that can take a step takes one.
SpecFair == Spec /\ WF_vars(Next)

---------------------------------------------------------------------------
(* Reading the history.                                                    *)

\* The positions in the history of the calls of one operation, and of
\* those of them issued from one step.
CallsOf(op) == {i \in 1..Len(calls) : calls[i].op = op}

CallsAt(op, site) == {i \in CallsOf(op) : calls[i].site = site}

LastCall == calls[Len(calls)]

Done == pc = "done"

---------------------------------------------------------------------------
(* Properties of authenticateToWebsite.                                    *)

\* The inputs of UserInputs that read "skip" once surrounding white space
\* and letter case are disregarded, listed by hand.
SkipInputs == {"skip\n", "Skip\n", "  SKIP \n", "\tsKiP"}

\* The first analysis of the run said that no sign-in is needed.
FirstAnalysisNoAuth ==
    /\ lastAnalyzer.called
    /\ lastAnalyzer.at = "initial"
    /\ ~lastAnalyzer.completion.threw
    /\ ~lastAnalyzer.completion.value.requiresAuth

\* C1 (auth short-circuit): when the first analysis after the initial
\* navigation has requiresAuth = FALSE, the run has returned successfully
\* (it is over, nothing was raised) and the credential lookup, every act
\* call (login click, autofill), the session viewer and the operator prompt
\* were never invoked.
C1_AuthShortCircuit ==
    FirstAnalysisNoAuth =>
        /\ pc = "done"
        /\ result = "Verified"
        /\ thrown = << >>
        /\ CallsOf("lookupCredentialsIn1Password") = {}
        /\ CallsOf("act") = {}
        /\ CallsOf("sessions.debug") = {}
        /\ CallsOf("waitForUserInput") = {}
        /\ Cardinality(CallsOf("analyzeAuthenticationState")) = 1
        /\ ~ENABLED Next

C1_Witness ==
    /\ FirstAnalysisNoAuth
    /\ result = "Verified"
    /\ CallsAt("goto", "initial") # {}

\* The operator has answered the prompt of the manual fallback with a skip.
Skipped == userInput # << >> /\ userInput[1] \in SkipInputs

\* The operator has answered with anything else.
NotSkipped == userInput # << >> /\ userInput[1] \notin SkipInputs

FinalAnalyses == CallsAt("analyzeAuthenticationState", "final")

\* C2 (skip semantics): once the operator's input reads "skip" (trimmed,
\* any case), the run goes to re-navigate to the original URL: no final
\* analysis is run, AuthenticationIncomplete is never raised whatever the
\* last analysis said, the navigation to the original URL is the last call
\* of the run, and the run returns ("Skipped") when that navigation
\* completes.
C2_SkipSemantics ==
    Skipped =>
        /\ FinalAnalyses = {}
        /\ thrown # <<AuthenticationIncomplete>>
        /\ \/ pc = "gotoSkip" /\ result = "none"
           \/ /\ pc = "done"
              /\ LastCall.op = "goto"
              /\ LastCall.site = "skip"
              /\ LastCall.arg = Url
              /\ calls[Len(calls) - 1].op = "waitForUserInput"
              /\ LastCall.outcome = "returned" =>
                    result = "Skipped" /\ thrown = << >>
              /\ LastCall.outcome = "raised" =>
                    result = "Failed" /\ thrown[1] \in NavigationErrors

C2_Witness ==
    /\ userInput = <<"  SKIP \n">>
    /\ result = "Skipped"
    /\ analysis.requiresAuth
    /\ LastCall.op = "goto"

\* C3 (manual verdict): after an operator input other than "skip" exactly
\* one final re-analysis is run, as the last step of the run: the run ends
\* Verified when it has requiresAuth = FALSE and fails with
\* AuthenticationIncomplete when it has requiresAuth = TRUE; nothing is
\* retried after it.
C3_ManualVerdict ==
    NotSkipped =>
        \/ /\ pc = "analyzeFinal"
           /\ result = "none"
           /\ FinalAnalyses = {}
        \/ /\ pc = "done"
           /\ ~ENABLED Next
           /\ FinalAnalyses = {Len(calls)}
           /\ calls[Len(calls) - 3].op = "waitForUserInput"
           /\ lastAnalyzer.at = "final"
           /\ analysis = lastAnalyzer.completion.value
           /\ IF analysis.requiresAuth
              THEN result = "Failed" /\ thrown = <<AuthenticationIncomplete>>
              ELSE result = "Verified" /\ thrown = << >>

C3_Witness ==
    /\ userInput = <<"skipp\n">>
    /\ thrown = <<AuthenticationIncomplete>>
    /\ Cardinality(FinalAnalyses) = 1

\* C4 as stated (only the terminal manual path can fail the run): a run
\* that raised did so with AuthenticationIncomplete, after a non-skip input
\* and a final analysis with requiresAuth = TRUE.
C4_OnlyManualPathFails ==
    result = "Failed" =>
        /\ NotSkipped
        /\ lastAnalyzer.at = "final"
        /\ analysis.requiresAuth
        /\ thrown = <<AuthenticationIncomplete>>

\* C4 amended: AuthenticationIncomplete is raised only after a non-skip
\* input and a final analysis with requiresAuth = TRUE; every other failed
\* run ended in a call that is awaited unguarded (locating the active page,
\* the initial navigation, opening the session viewer, the navigation of a
\* skip) with that call's own error; the credential lookup, the login
\* click, the autofill steps, the network-idle waits and the analyzer never
\* end the run.
C4_FailuresOfTheRun ==
    result = "Failed" =>
        /\ pc = "done"
        /\ thrown # << >>
        /\ \/ /\ thrown = <<AuthenticationIncomplete>>
              /\ NotSkipped
              /\ lastAnalyzer.at = "final"
              /\ analysis.requiresAuth
           \/ /\ thrown = <<NoActivePage>>
              /\ LastCall.op = "awaitActivePage"
              /\ Len(calls) = 1
           \/ /\ thrown[1] \in NavigationErrors
              /\ LastCall.op = "goto"
              /\ LastCall.site = "initial" \/ (LastCall.site = "skip" /\ Skipped)
           \/ /\ thrown[1] \in DebugApiErrors
              /\ LastCall.op = "sessions.debug"
        /\ LastCall.outcome = "raised" \/ thrown = <<AuthenticationIncomplete>>
        /\ LastCall.op \notin {"lookupCredentialsIn1Password", "act",
                               "waitForLoadState", "extract"}

C4_Witness ==
    /\ result = "Failed"
    /\ thrown = <<AuthenticationIncomplete>>
    /\ \E i \in CallsAt("act", "click") : calls[i].outcome = "raised"
    /\ \E i \in CallsAt("act", "password") : calls[i].outcome = "raised"

LoginClicks == CallsAt("act", "click")

\* C5 (a failed login-button click is not fatal): the click is attempted
\* when, and only when, the analysis at hand names a login button, and at
\* most once in a run; when that attempt raises, the failure is logged and
\* the run goes on, still running, to the autofill decision.
C5_ClickFailureNonFatal ==
    [][ /\ (pc = "lookup" /\ HasLoginButton(analysis)) => pc' = "clickLogin"
        /\ (pc = "lookup" /\ ~HasLoginButton(analysis)) => pc' = "autofill"
        /\ pc = "clickLogin" =>
              /\ LoginClicks = {}
              /\ LoginClicks' = {Len(calls')}
              /\ calls'[Len(calls')].arg = analysis.loginButton[1]
              /\ calls'[Len(calls')].outcome = "raised" =>
                    /\ pc' = "autofill"
                    /\ result' = "none"
                    /\ thrown' = << >>
                    /\ console'[Len(console')][1]
                          = "Failed to click login button: "
        /\ pc # "clickLogin" => LoginClicks' = LoginClicks
      ]_vars

C5_Witness ==
    /\ pc = "manual"
    /\ result = "none"
    /\ LoginClicks # {}
    /\ \A i \in LoginClicks : calls[i].outcome = "raised"

\* C6 as stated: at the autofill decision, a click that was attempted
\* (whether it returned or raised) is followed by the analyzer call that
\* produced the analysis at hand.
C6_ReanalysisAfterAnyClick ==
    (pc = "autofill" /\ LoginClicks # {}) =>
        \A i \in LoginClicks : analysisAt > i

\* C6 amended: at the autofill decision, when the click returned, the
\* analysis at hand was produced by an analyzer call issued after the
\* click (and after its network-idle wait); when the click raised, no
\* analyzer call follows it and the analysis at hand is the one that named
\* the button.
C6_ReanalysisAfterSuccessfulClick ==
    (pc = "autofill" /\ LoginClicks # {}) =>
        \A i \in LoginClicks :
            IF calls[i].outcome = "returned"
            THEN /\ analysisAt > i
                 /\ analysisAt = Len(calls)
                 /\ lastAnalyzer.at = "postClick"
                 /\ analysis = lastAnalyzer.completion.value
                 /\ calls[i + 1].op = "waitForLoadState"
            ELSE /\ analysisAt < i
                 /\ i = Len(calls)
                 /\ lastAnalyzer.at = "initial"
                 /\ HasLoginButton(analysis)

C6_Witness ==
    /\ pc = "autofill"
    /\ \E i \in LoginClicks : calls[i].outcome = "returned"
    /\ lastAnalyzer.at = "postClick"
    /\ ~HasLoginButton(analysis)

AutofillActs == CallsAt("act", "username") \cup CallsAt("act", "password")
                    \cup CallsAt("act", "submit")

\* C7 (autofill gating and outcome): autofill is started exactly when
\* credentials were found and the analysis at hand has canAutofill = TRUE;
\* its calls are username entry, password entry, submit, in that order and
\* each at most once, then the wait and the analyzer; a post-autofill
\* analysis with requiresAuth = FALSE ends the run Verified with no
\* operator prompt, and a post-autofill analysis with requiresAuth = TRUE,
\* like any raising autofill step, leads to the manual fallback.
C7_AutofillGatingAndOutcome ==
    [][ /\ pc = "autofill" =>
              IF credentials # << >> /\ analysis.canAutofill = <<TRUE>>
              THEN pc' = "typeUsername"
              ELSE pc' = "manual" /\ AutofillActs' = {}
        /\ pc' = "typeUsername" => AutofillActs' = {}
        /\ pc = "typeUsername" =>
              /\ calls'[Len(calls')].site = "username"
              /\ calls'[Len(calls')].outcome = "returned" => pc' = "typePassword"
        /\ pc = "typePassword" =>
              /\ calls'[Len(calls')].site = "password"
              /\ calls[Len(calls)].site = "username"
              /\ calls'[Len(calls')].outcome = "returned" => pc' = "clickSubmit"
        /\ pc = "clickSubmit" =>
              /\ calls'[Len(calls')].site = "submit"
              /\ calls[Len(calls)].site = "password"
              /\ calls'[Len(calls')].outcome = "returned" => pc' = "autofillIdle"
        /\ pc = "autofillIdle" =>
              /\ calls[Len(calls)].site = "submit"
              /\ pc' = "analyzePostAutofill"
        /\ pc \in {"typeUsername", "typePassword", "clickSubmit"} =>
              /\ Cardinality(AutofillActs') = Cardinality(AutofillActs) + 1
              /\ calls'[Len(calls')].outcome = "raised" =>
                    pc' = "manual" /\ result' = "none"
        /\ pc = "analyzePostAutofill" =>
              /\ lastAnalyzer'.at = "postAutofill"
              /\ calls[Len(calls)].op = "waitForLoadState"
              /\ IF analysis'.requiresAuth
                 THEN pc' = "manual" /\ result' = "none"
                 ELSE /\ pc' = "done"
                      /\ result' = "Verified"
                      /\ CallsOf("waitForUserInput")' = {}
                      /\ CallsOf("sessions.debug")' = {}
        /\ pc \notin {"typeUsername", "typePassword", "clickSubmit"} =>
              AutofillActs' = AutofillActs
      ]_vars

C7_Witness ==
    /\ result = "Verified"
    /\ lastAnalyzer.at = "postAutofill"
    /\ Cardinality(AutofillActs) = 3
    /\ CallsOf("waitForUserInput") = {}

Lookups == CallsOf("lookupCredentialsIn1Password")

\* The vault had no entry, or could not be reached.
LookupAbsent ==
    \E i \in Lookups : calls[i].outcome \in {"noEntry", "vaultUnreachable"}

\* C8 (credential lookup never fails the pipeline): after a lookup that
\* found no entry or could not reach the vault, credentials are absent, no
\* autofill step is ever attempted, the autofill decision leads to the
\* manual fallback; and no run ends, failed, in the lookup.
C8_LookupNeverFails ==
    /\ LookupAbsent =>
          /\ credentials = << >>
          /\ AutofillActs = {}
          /\ pc \notin {"typeUsername", "typePassword", "clickSubmit",
                        "autofillIdle", "analyzePostAutofill"}
          /\ lastAnalyzer.at # "postAutofill"
          /\ pc = "done" => (CallsOf("sessions.debug") # {})
    /\ Lookups # {} =>
          /\ Cardinality(Lookups) = 1
          /\ \A i \in Lookups :
                calls[i].outcome = "found" <=> credentials # << >>
    /\ (result = "Failed" /\ Lookups # {}) =>
          LastCall.op # "lookupCredentialsIn1Password"

C8_Witness ==
    /\ pc = "manual"
    /\ \E i \in Lookups : calls[i].outcome = "vaultUnreachable"
    /\ analysis.canAutofill = <<TRUE>>
    /\ credentials = << >>

\* The positions of the calls that raised.
RaisedCalls == {i \in 1..Len(calls) : calls[i].outcome = "raised"}

AnalyzerCalls == CallsOf("analyzeAuthenticationState")

\* C11 (no retry loop): in a run there is at most one credential lookup,
\* one login-click attempt, one call of each autofill step, one operator
\* prompt, and at most four analyzer invocations, one per stage (initial,
\* post-click, post-autofill, final) and in that order; no call that raised
\* is issued again.
C11_NoRetryLoop ==
    /\ Cardinality(Lookups) <= 1
    /\ Cardinality(LoginClicks) <= 1
    /\ \A site \in {"username", "password", "submit"} :
          Cardinality(CallsAt("act", site)) <= 1
    /\ Cardinality(CallsOf("waitForUserInput")) <= 1
    /\ Cardinality(CallsOf("sessions.debug")) <= 1
    /\ Cardinality(AnalyzerCalls) <= 4
    /\ \A site \in {"initial", "postClick", "postAutofill", "final"} :
          Cardinality(CallsAt("analyzeAuthenticationState", site)) <= 1
    /\ \A i, j \in AnalyzerCalls :
          i < j =>
            <<calls[i].site, calls[j].site>> \in
                {<<"initial", "postClick">>, <<"initial", "postAutofill">>,
                 <<"initial", "final">>, <<"postClick", "postAutofill">>,
                 <<"postClick", "final">>, <<"postAutofill", "final">>}
    /\ \A i \in RaisedCalls :
          \A j \in (i + 1)..Len(calls) :
             ~(calls[j].op = calls[i].op /\ calls[j].site = calls[i].site)

C11_Witness ==
    /\ pc = "done"
    /\ Cardinality(AnalyzerCalls) = 4
    /\ Cardinality(AutofillActs) = 3
    /\ Cardinality(LoginClicks) = 1
    /\ Cardinality(CallsOf("waitForUserInput")) = 1
    /\ Cardinality(Lookups) = 1

IdleWaits == CallsOf("waitForLoadState")

\* C12 (a failed network-idle wait is swallowed): whatever the wait after
\* the login click or after the autofill submit did, the run is still
\* going, nothing is logged or raised for it, and the next step is the
\* re-analysis of that stage, which is then run.
C12_IdleWaitSwallowed ==
    [][ /\ pc = "clickIdle" =>
              /\ IdleWaits' = IdleWaits \cup {Len(calls')}
              /\ pc' = "analyzePostClick"
              /\ result' = "none" /\ thrown' = << >>
              /\ console' = console
        /\ pc = "autofillIdle" =>
              /\ IdleWaits' = IdleWaits \cup {Len(calls')}
              /\ pc' = "analyzePostAutofill"
              /\ result' = "none" /\ thrown' = << >>
              /\ console' = console
        /\ pc \in {"analyzePostClick", "analyzePostAutofill"} =>
              /\ LastCall.op = "waitForLoadState"
              /\ Cardinality(AnalyzerCalls') = Cardinality(AnalyzerCalls) + 1
              /\ lastAnalyzer'.at =
                    (IF pc = "analyzePostClick" THEN "postClick"
                                                ELSE "postAutofill")
              /\ analysis' = lastAnalyzer'.completion.value
      ]_vars

C12_Witness ==
    /\ result = "Verified"
    /\ lastAnalyzer.at = "postAutofill"
    /\ \A i \in IdleWaits : calls[i].outcome = "raised"
    /\ Cardinality(IdleWaits) = 2
    /\ CallsAt("analyzeAuthenticationState", "postClick") # {}

---------------------------------------------------------------------------
(* The analyzer on its own: Init draws what extract does and the page URL, *)
(* the one action applies analyzeAuthenticationState to them.              *)

InitAnalyzer ==
    /\ pc = "analyzer"
    /\ NotAuthIdle
    /\ analysis = NoAnalysis
    /\ credentials = << >>
    /\ userInput = << >>
    /\ result = "none"
    /\ thrown = << >>
    /\ console = << >>
    /\ calls = << >>
    /\ analysisAt = 0
    /\ \E x \in ExtractOutcomes, u \in PageUrls :
        lastAnalyzer = [called |-> FALSE, at |-> "direct", extract |-> x,
                        url |-> <<u>>, completion |-> Returned(NoAnalysis)]

AnalyzeCall ==
    /\ pc = "analyzer"
    /\ UNCHANGED notAuthVars
    /\ LET x == lastAnalyzer.extract
           u == lastAnalyzer.url[1]
           r == analyzeAuthenticationState(x, u)
       IN
       /\ Analyzer("direct", x, u, r)
       /\ IF r.threw
          THEN Throw(r.error) /\ UNCHANGED <<analysis, analysisAt>>
          ELSE Return("Analysed") /\ Assign(r.value)
    /\ UNCHANGED <<credentials, userInput, console>>

NextAnalyzer == AnalyzeCall

SpecAnalyzer == InitAnalyzer /\ [][NextAnalyzer]_vars

---------------------------------------------------------------------------
(* Properties of analyzeAuthenticationState.                               *)

\* C9 (the analyzer never throws): whatever the page and whatever extract
\* did (resolved, rejected by the request, rejected by schema validation),
\* the analyzer call has returned, not raised, and what it returned has a
\* boolean requiresAuth.
C9_AnalyzerNeverThrows ==
    lastAnalyzer.called =>
        /\ ~lastAnalyzer.completion.threw
        /\ lastAnalyzer.completion.value.requiresAuth \in BOOLEAN
        /\ lastAnalyzer.at = "direct" =>
              /\ LastCall.op = "analyzeAuthenticationState"
              /\ LastCall.outcome = "returned"
              /\ result = "Analysed"
              /\ thrown = << >>
              /\ analysis = lastAnalyzer.completion.value

C9_Witness ==
    /\ lastAnalyzer.called
    /\ lastAnalyzer.extract.threw
    /\ lastAnalyzer.extract.error.message = "response failed schema validation"
    /\ ~lastAnalyzer.completion.threw
    /\ lastAnalyzer.completion.value.requiresAuth

\* The pages of PageUrls whose URL contains login, signin, auth, sign-in or
\* account in any letter case, listed by hand.
LoginLikeUrls ==
    {"https://a.io/Login", "https://a.io/SIGNIN", "https://a.io/sign-in",
     "https://a.io/oauth", "https://a.io/Account"}

\* The summaries that say the heuristic was used.
FallbackSummaries ==
    {<<"Heuristic result after extract error.">>}
    \cup {<<"Heuristic result after extract error: ", e.message>> :
            e \in ExtractErrors}

\* C10 (heuristic fallback): when extract failed, the returned analysis has
\* requiresAuth = TRUE exactly when the page URL contains one of the five
\* keywords in any letter case, and its summary says the heuristic was
\* used; when extract succeeded, its result is returned unchanged.
C10_HeuristicFallback ==
    lastAnalyzer.called =>
        LET ret == lastAnalyzer.completion.value IN
        IF lastAnalyzer.extract.threw
        THEN /\ ret.requiresAuth <=> lastAnalyzer.url[1] \in LoginLikeUrls
             /\ ret.summary # << >>
             /\ ret.summary[1] \in FallbackSummaries
        ELSE /\ ret = lastAnalyzer.extract.value
             /\ ret.summary = << >> \/ ret.summary[1] \notin FallbackSummaries

C10_Witness ==
    /\ lastAnalyzer.called
    /\ lastAnalyzer.extract.threw
    /\ lastAnalyzer.url = <<"https://a.io/SIGNIN">>
    /\ lastAnalyzer.completion.value.requiresAuth
    /\ lastAnalyzer.completion.value.summary[1] \in FallbackSummaries

---------------------------------------------------------------------------
(* discoverActions: what the agent's final message can be.  A message is   *)
(* a prefix, a body and a suffix; the three pieces are kept apart in       *)
(* agentResult so that a property can speak about the body of a wrapped    *)
(* message.                                                                *)

\* The bodies: catalogs that satisfy the schema, catalogs that violate it,
\* JSON of another shape, and text that is no JSON.
EmptyMessage == ""

EmptyCatalog == "{\"actions\":[]}"

OneAction ==
    "{\"actions\":[{\"name\":\"find\",\"description\":\"Find it\",\"parameters\":[{\"name\":\"q\",\"type\":\"string\",\"description\":\"Query\",\"required\":true}],\"steps\":[\"Type {q}\"]}]}"

NoParameters ==
    "{\"actions\":[{\"name\":\"open\",\"description\":\"Open it\",\"steps\":[\"Click Open\"]}]}"

NoRequired ==
    "{\"actions\":[{\"name\":\"find\",\"description\":\"Find it\",\"parameters\":[{\"name\":\"q\",\"type\":\"number\",\"description\":\"Query\"}],\"steps\":[\"Type {q}\"]}]}"

MissingDescription ==
    "{\"actions\":[{\"name\":\"open\",\"description\":\"Open it\",\"parameters\":[],\"steps\":[\"Click Open\"]},{\"name\":\"find\",\"parameters\":[],\"steps\":[\"Click Find\"]}]}"

BadType ==
    "{\"actions\":[{\"name\":\"find\",\"description\":\"Find it\",\"parameters\":[{\"name\":\"q\",\"type\":\"date\",\"description\":\"Query\",\"required\":true}],\"steps\":[\"Type {q}\"]}]}"

UndeclaredPlaceholder ==
    "{\"actions\":[{\"name\":\"find\",\"description\":\"Find it\",\"parameters\":[],\"steps\":[\"Type {q}\"]}]}"

WithSchema ==
    "{ \"actions\" : [ {\"name\":\"list\",\"description\":\"List it\",\"parameters\":[],\"steps\":[],\"extractionSchema\":{\"rows\":\"array\"},\"note\":1} ] }"

NotAnObject == "[]"

NoActionsKey == "{\"acts\":[]}"

Prose == "I found no actions"

Truncated == "{\"actions\":["

ResponseBodies ==
    {EmptyMessage, EmptyCatalog, OneAction, NoParameters, NoRequired,
     MissingDescription, BadType, UndeclaredPlaceholder, WithSchema,
     NotAnObject, NoActionsKey, Prose, Truncated}

\* What a message can have before its body.
NoPrefix == ""

JsonFenceLine == "'''json\n"

UpperJsonFenceLine == "'''JSON\n"

BareFenceLine == "'''\n"

JsFenceLine == "'''js\n"

PaddedJsonFenceLine == " \n'''json\n"

ProseThenFenceLine == "Sure:\n'''json\n"

ResponsePrefixes ==
    {NoPrefix, JsonFenceLine, UpperJsonFenceLine, BareFenceLine,
     JsFenceLine, PaddedJsonFenceLine, ProseThenFenceLine}

\* What a message can have after its body.
NoSuffix == ""

FenceEnd == "\n'''"

PaddedFenceEnd == "\n'''\n "

TightFenceEnd == "'''"

ResponseSuffixes ==
    {NoSuffix, FenceEnd, PaddedFenceEnd, TightFenceEnd}

\* result.message
Message(r) == r.pre \o r.body \o r.post

MessageChars(r) == Chars(r.pre) \o Chars(r.body) \o Chars(r.post)

\* What `await agent.execute(...)` settles with: it rejects, or resolves
\* with something that is no object, an object without a message, or an
\* object with a message.
AgentErrors == {NamedErr("Error", "agent failed"), NamedErr("", "aborted")}

AgentResults ==
    {[kind |-> k, pre |-> "", body |-> "", post |-> ""] :
        k \in {"rejected", "notObject", "noMessage"}}
    \cup
    {[kind |-> "message", pre |-> a, body |-> b, post |-> c] :
        a \in ResponsePrefixes, b \in ResponseBodies, c \in ResponseSuffixes}

---------------------------------------------------------------------------
(* Fence stripping, lines 115-121, on character sequences.                 *)

StartsWith(cs, lead) ==
    Len(cs) >= Len(lead) /\ SubSeq(cs, 1, Len(lead)) = lead

Fence == <<Grave, Grave, Grave>>

JsonFence == Fence \o <<"j", "s", "o", "n">>

\* replace(/^```json\s*/i, "") stripping a fence with any tag
StripJsonFence_anyTag(cs) ==
    IF StartsWith(cs, Fence)
    THEN LET RECURSIVE AfterTag(_)
             AfterTag(s) == IF s # << >> /\ Head(s) \notin WhiteSpace
                            THEN AfterTag(Tail(s)) ELSE s
         IN trimStart(AfterTag(SubSeq(cs, Len(Fence) + 1, Len(cs))))
    ELSE cs

\* replace(/^```json\s*/i, ""): a leading fence tagged json in any letter
\* case goes, together with the white space after it.
StripJsonFence(cs) ==
    IF Len(cs) >= Len(JsonFence)
       /\ toLowerCase(SubSeq(cs, 1, Len(JsonFence))) = JsonFence
    THEN trimStart(SubSeq(cs, Len(JsonFence) + 1, Len(cs)))
    ELSE cs

\* replace(/^```\s*/, ""): a leading fence goes, with the white space after it.
StripBareFence(cs) ==
    IF StartsWith(cs, Fence)
    THEN trimStart(SubSeq(cs, Len(Fence) + 1, Len(cs)))
    ELSE cs

StripTrailingFence_kept(cs) == cs

\* replace(/\s*```$/, ""): a fence at the very end goes, with the white
\* space before it.
StripTrailingFence(cs) ==
    IF Len(cs) >= Len(Fence)
       /\ SubSeq(cs, Len(cs) - Len(Fence) + 1, Len(cs)) = Fence
    THEN trimEnd(SubSeq(cs, 1, Len(cs) - Len(Fence)))
    ELSE cs

\* lines 116-121: the text handed to JSON.parse
CleanResponse(cs) ==
    trim(StripTrailingFence(StripBareFence(StripJsonFence(trim(cs)))))

---------------------------------------------------------------------------
(* JSON.parse on a character sequence.  A JSON value is a record with its  *)
(* type t and its content v: a string for a string and for a number (its   *)
(* digits), a boolean, << >> for null, the sequence of the elements of an  *)
(* array, the sequence of the <<key, value>> members of an object.  The    *)
(* grammar is that of JSON without escape sequences inside strings and     *)
(* without signs, fractions and exponents in numbers, which no text of the *)
(* model uses.                                                             *)

JString(s) == [t |-> "string", v |-> s]

JNumber(s) == [t |-> "number", v |-> s]

JBoolean(b) == [t |-> "boolean", v |-> b]

JNull == [t |-> "null", v |-> << >>]

JArray(items) == [t |-> "array", v |-> items]

JObject(members) == [t |-> "object", v |-> members]

JsonWhiteSpace == {" ", "\t", "\n", "\r"}

Digits == {"0", "1", "2", "3", "4", "5", "6", "7", "8", "9"}

ParseFail(i) == [ok |-> FALSE, val |-> JNull, next |-> i]

ParseOk(v, n) == [ok |-> TRUE, val |-> v, next |-> n]

RECURSIVE SkipWs(_, _)
SkipWs(cs, i) ==
    IF i <= Len(cs) /\ cs[i] \in JsonWhiteSpace THEN SkipWs(cs, i + 1) ELSE i

\* The index of the quote closing the string whose content starts at i, or 0.
RECURSIVE ClosingQuote(_, _)
ClosingQuote(cs, i) ==
    IF i > Len(cs) \/ cs[i] \in {"\\", "\n", "\r", "\t"} THEN 0
    ELSE IF cs[i] = "\"" THEN i
    ELSE ClosingQuote(cs, i + 1)

\* cs[i] is the opening quote.
ParseString(cs, i) ==
    LET j == ClosingQuote(cs, i + 1)
    IN IF j = 0 THEN ParseFail(i)
       ELSE ParseOk(JString(Text(SubSeq(cs, i + 1, j - 1))), j + 1)

RECURSIVE DigitsEnd(_, _)
DigitsEnd(cs, i) ==
    IF i <= Len(cs) /\ cs[i] \in Digits THEN DigitsEnd(cs, i + 1) ELSE i

\* cs[i] is a digit; a number of several digits does not start with 0.
ParseNumber(cs, i) ==
    LET j == DigitsEnd(cs, i)
    IN IF cs[i] = "0" /\ j > i + 1 THEN ParseOk(JNumber("0"), i + 1)
       ELSE ParseOk(JNumber(Text(SubSeq(cs, i, j - 1))), j)

At(cs, i, word) ==
    i + Len(word) - 1 <= Len(cs) /\ SubSeq(cs, i, i + Len(word) - 1) = word

ParseLiteral(cs, i) ==
    IF At(cs, i, <<"t", "r", "u", "e">>) THEN ParseOk(JBoolean(TRUE), i + 4)
    ELSE IF At(cs, i, <<"f", "a", "l", "s", "e">>)
    THEN ParseOk(JBoolean(FALSE), i + 5)
    ELSE IF At(cs, i, <<"n", "u", "l", "l">>) THEN ParseOk(JNull, i + 4)
    ELSE ParseFail(i)

RECURSIVE ParseValue(_, _), ParseElements(_, _, _), ParseMembers(_, _, _)

\* The elements of an array from the place where an element must start.
ParseElements(cs, i, acc) ==
    LET r == ParseValue(cs, i)
        j == SkipWs(cs, r.next)
    IN IF ~r.ok \/ j > Len(cs) THEN ParseFail(i)
       ELSE IF cs[j] = "," THEN ParseElements(cs, j + 1, Append(acc, r.val))
       ELSE IF cs[j] = "]" THEN ParseOk(JArray(Append(acc, r.val)), j + 1)
       ELSE ParseFail(j)

\* The members of an object from the place where a key must start.
ParseMembers(cs, i, acc) ==
    LET k == SkipWs(cs, i)
        key == IF k <= Len(cs) /\ cs[k] = "\"" THEN ParseString(cs, k)
               ELSE ParseFail(k)
        c == SkipWs(cs, key.next)
        r == IF key.ok /\ c <= Len(cs) /\ cs[c] = ":"
             THEN ParseValue(cs, c + 1)
             ELSE ParseFail(c)
        j == SkipWs(cs, r.next)
        member == <<key.val.v, r.val>>
    IN IF ~r.ok \/ j > Len(cs) THEN ParseFail(i)
       ELSE IF cs[j] = "," THEN ParseMembers(cs, j + 1, Append(acc, member))
       ELSE IF cs[j] = "}" THEN ParseOk(JObject(Append(acc, member)), j + 1)
       ELSE ParseFail(j)

ParseValue(cs, i0) ==
    LET i == SkipWs(cs, i0)
        j == SkipWs(cs, i + 1)
    IN IF i > Len(cs) THEN ParseFail(i)
       ELSE IF cs[i] = "[" THEN
            IF j <= Len(cs) /\ cs[j] = "]" THEN ParseOk(JArray(<< >>), j + 1)
            ELSE ParseElements(cs, j, << >>)
       ELSE IF cs[i] = "{" THEN
            IF j <= Len(cs) /\ cs[j] = "}" THEN ParseOk(JObject(<< >>), j + 1)
            ELSE ParseMembers(cs, j, << >>)
       ELSE IF cs[i] = "\"" THEN ParseString(cs, i)
       ELSE IF cs[i] \in Digits THEN ParseNumber(cs, i)
       ELSE ParseLiteral(cs, i)

\* The message of the SyntaxError JSON.parse raises (its wording is the
\* engine's; the model keeps one).
SyntaxErrorMessage == "Unexpected token or end of JSON input"

\* JSON.parse: one value, with nothing but white space after it.
JsonParse(cs) ==
    LET r == ParseValue(cs, 1)
    IN IF r.ok /\ SkipWs(cs, r.next) > Len(cs)
       THEN [threw |-> FALSE, value |-> r.val]
       ELSE [threw |-> TRUE, value |-> JNull]

---------------------------------------------------------------------------
(* DiscoveredActionsResponseSchema.parse, schemas/index.ts lines 5-24.     *)
(* Validation visits the keys of a schema in the order the schema lists    *)
(* them and the elements of an array in order, and collects one issue per  *)
(* violation: its code and the path of the offending value (an array index *)
(* is the element's position counted from 0, written in digits).           *)

\* The object has the key (the last member of that name is its value).
Has(o, key) == \E i \in 1..Len(o.v) : o.v[i][1] = key

Get(o, key) ==
    LET i == CHOOSE n \in 1..Len(o.v) :
                 /\ o.v[n][1] = key
                 /\ \A l \in (n + 1)..Len(o.v) : o.v[l][1] # key
    IN o.v[i][2]

DigitText == <<"0", "1", "2", "3", "4", "5", "6", "7", "8", "9">>

\* The decimal text of n (the counts and positions of the model have one digit).
NumberText(n) == DigitText[n + 1]

Issue(code, path) == [code |-> code, path |-> path]

RECURSIVE Flatten(_)
Flatten(ss) == IF ss = << >> THEN << >> ELSE Head(ss) \o Flatten(Tail(ss))

\* The issues of a value under the schema of that name (defined below).
RECURSIVE SchemaIssues(_, _, _)

\* z.array(schema): the issues of every element.
EachIssues(items, path, schema) ==
    Flatten([i \in 1..Len(items) |->
                SchemaIssues(schema, items[i], Append(path, NumberText(i - 1)))])

\* z.string()
StringIssues(v, path) ==
    IF v.t = "string" THEN << >> ELSE <<Issue("invalid_type", path)>>

\* z.enum(["string", "number", "boolean"])
TypeEnum == {"string", "number", "boolean"}

EnumIssues(v, path) ==
    IF v.t # "string" THEN <<Issue("invalid_type", path)>>
    ELSE IF v.v \in TypeEnum THEN << >>
    ELSE <<Issue("invalid_enum_value", path)>>

\* z.boolean()
BooleanIssues(v, path) ==
    IF v.t = "boolean" THEN << >> ELSE <<Issue("invalid_type", path)>>

\* z.record(z.any())
RecordIssues(v, path) ==
    IF v.t = "object" THEN << >> ELSE <<Issue("invalid_type", path)>>

\* A key whose schema is not optional: a missing key is an issue.
Required(o, key, path, schema) ==
    IF Has(o, key) THEN SchemaIssues(schema, Get(o, key), Append(path, key))
    ELSE <<Issue("invalid_type", Append(path, key))>>

\* .optional(): a missing key is accepted.
Optional(o, key, path, schema) ==
    IF Has(o, key) THEN SchemaIssues(schema, Get(o, key), Append(path, key))
    ELSE << >>

\* lines 11-16: one entry of `parameters`
ParameterIssues(v, path) ==
    IF v.t # "object" THEN <<Issue("invalid_type", path)>>
    ELSE Required(v, "name", path, "string")
         \o Required(v, "type", path, "enum")
         \o Required(v, "description", path, "string")
         \o Optional(v, "required", path, "boolean")

\* z.array(z.string())
StepsIssues(v, path) ==
    IF v.t # "array" THEN <<Issue("invalid_type", path)>>
    ELSE EachIssues(v.v, path, "string")

ParametersIssues(v, path) ==
    IF v.t # "array" THEN <<Issue("invalid_type", path)>>
    ELSE EachIssues(v.v, path, "parameter")

\* lines 5-20: DiscoveredActionSchema
DiscoveredActionIssues(v, path) ==
    IF v.t # "object" THEN <<Issue("invalid_type", path)>>
    ELSE Required(v, "name", path, "string")
         \o Required(v, "description", path, "string")
         \o Required(v, "steps", path, "steps")
         \o Optional(v, "parameters", path, "parameters")
         \o Optional(v, "extractionSchema", path, "record")

ActionsIssues(v, path) ==
    IF v.t # "array" THEN <<Issue("invalid_type", path)>>
    ELSE EachIssues(v.v, path, "action")

SchemaIssues(schema, v, path) ==
    CASE schema = "string" -> StringIssues(v, path)
      [] schema = "enum" -> EnumIssues(v, path)
      [] schema = "boolean" -> BooleanIssues(v, path)
      [] schema = "record" -> RecordIssues(v, path)
      [] schema = "steps" -> StepsIssues(v, path)
      [] schema = "parameter" -> ParameterIssues(v, path)
      [] schema = "parameters" -> ParametersIssues(v, path)
      [] schema = "action" -> DiscoveredActionIssues(v, path)
      [] schema = "actions" -> ActionsIssues(v, path)

\* lines 22-24: DiscoveredActionsResponseSchema
DiscoveredActionsResponseIssues(v) ==
    IF v.t # "object" THEN <<Issue("invalid_type", << >>)>>
    ELSE Required(v, "actions", << >>, "actions")

\* The validated values: the keys of the schema and nothing else.
DiscoveredParameter(v) ==
    [name |-> Get(v, "name").v,
     type |-> Get(v, "type").v,
     description |-> Get(v, "description").v,
     required |-> IF Has(v, "required") THEN <<Get(v, "required").v>>
                  ELSE << >>]

DiscoveredAction(v) ==
    [name |-> Get(v, "name").v,
     description |-> Get(v, "description").v,
     steps |-> [i \in 1..Len(Get(v, "steps").v) |-> Get(v, "steps").v[i].v],
     parameters |->
        IF Has(v, "parameters")
        THEN <<[i \in 1..Len(Get(v, "parameters").v) |->
                   DiscoveredParameter(Get(v, "parameters").v[i])]>>
        ELSE << >>,
     extractionSchema |->
        IF Has(v, "extractionSchema") THEN <<Get(v, "extractionSchema")>>
        ELSE << >>]

\* A validation that keeps the actions without issue and drops the others
DiscoveredActionsResponseSchemaParse_partial(v) ==
    IF v.t # "object" \/ ~Has(v, "actions") \/ Get(v, "actions").t # "array"
    THEN [threw |-> TRUE, actions |-> << >>,
          issues |-> DiscoveredActionsResponseIssues(v)]
    ELSE LET items == Get(v, "actions").v
             Valid(i) == DiscoveredActionIssues(items[i], << >>) = << >>
             kept == SelectSeq([i \in 1..Len(items) |->
                                   IF Valid(i) THEN <<DiscoveredAction(items[i])>>
                                   ELSE << >>],
                               LAMBDA a : a # << >>)
         IN [threw |-> FALSE, actions |-> [i \in 1..Len(kept) |-> kept[i][1]],
             issues |-> << >>]

\* DiscoveredActionsResponseSchema.parse(parsed): the validated actions, or
\* a ZodError with every issue.
DiscoveredActionsResponseSchemaParse(v) ==
    LET issues == DiscoveredActionsResponseIssues(v)
    IN IF issues = << >>
       THEN [threw |-> FALSE,
             actions |-> [i \in 1..Len(Get(v, "actions").v) |->
                             DiscoveredAction(Get(v, "actions").v[i])],
             issues |-> << >>]
       ELSE [threw |-> TRUE, actions |-> << >>, issues |-> issues]

RECURSIVE PathText(_)
PathText(path) ==
    IF path = << >> THEN ""
    ELSE IF Len(path) = 1 THEN path[1]
    ELSE path[1] \o "." \o PathText(Tail(path))

\* ZodError.message: the issues, each with its code and its path.
RECURSIVE ZodErrorMessage(_)
ZodErrorMessage(issues) ==
    IF issues = << >> THEN ""
    ELSE "[" \o Head(issues).code \o " at " \o PathText(Head(issues).path)
         \o "]" \o ZodErrorMessage(Tail(issues))

---------------------------------------------------------------------------
(* One call of discoverActions(stagehand, domain).  The call suspends once, *)
(* at `await agent.execute(...)`; Init draws what the agent settles with.  *)

AuthIdle ==
    /\ pc = "idle"
    /\ analysis = NoAnalysis
    /\ credentials = << >>
    /\ userInput = << >>
    /\ result = "none"
    /\ thrown = << >>
    /\ calls = << >>
    /\ analysisAt = 0
    /\ lastAnalyzer = NotAnalyzed

InitDiscovery ==
    /\ AuthIdle
    /\ SessionIdle
    /\ CoordIdle
    /\ UrlIdle
    /\ ModelIdle
    /\ ServerIdle
    /\ console = << >>
    /\ dpc = "start"
    /\ agentResult \in AgentResults
    /\ discovered = NotDiscovered

\* lines 11-101: the agent is created and told to explore.
AgentExecute ==
    /\ dpc = "start"
    /\ dpc' = "executing"
    /\ console' = console \o
          <<<<"Discovering actions on ", Domain, "...">>,
            <<"Initializing AI agent for website exploration...">>,
            <<"Agent exploring website (this may take a minute)...">>>>
    /\ UNCHANGED <<agentResult, discovered>>
    /\ UNCHANGED notDiscoveryVars

\* lines 137-150 with the cause left out of the message
DiscoveryFailed_noCause(stage, e, text, logged) ==
    /\ discovered' =
          [stage |-> stage, threw |-> TRUE, actions |-> << >>,
           error |-> NamedErr("Error", "Failed to discover actions"),
           cause |-> e, jsonString |-> text]
    /\ console' = console \o logged \o
          <<<<"Error during agent execution:", ErrorText(e)>>>> \o
          (IF e.instanceOfError
           THEN <<<<"   Error message:", e.message>>,
                  <<"   Stack trace:", e.message>>>>
           ELSE << >>)

\* lines 137-150 returning an empty list where they raise
DiscoveryFailed_swallowed(stage, e, text, logged) ==
    /\ discovered' =
          [stage |-> "returned", threw |-> FALSE, actions |-> << >>,
           error |-> NoErr, cause |-> e, jsonString |-> text]
    /\ console' = console \o logged \o
          <<<<"Error during agent execution:", ErrorText(e)>>>> \o
          (IF e.instanceOfError
           THEN <<<<"   Error message:", e.message>>,
                  <<"   Stack trace:", e.message>>>>
           ELSE << >>)

\* lines 137-150: whatever was raised inside the try block (e) is logged,
\* and an Error is raised whose message is the same lead followed by e's
\* message, or by e itself when e is no Error.
DiscoveryFailed(stage, e, text, logged) ==
    /\ discovered' =
          [stage |-> stage, threw |-> TRUE, actions |-> << >>,
           error |-> NamedErr("Error",
                              "Failed to discover actions: " \o ErrorText(e)),
           cause |-> e, jsonString |-> text]
    /\ console' = console \o logged \o
          <<<<"Error during agent execution:", ErrorText(e)>>>> \o
          (IF e.instanceOfError
           THEN <<<<"   Error message:", e.message>>,
                  <<"   Stack trace:", e.message>>>>
           ELSE << >>)

\* lines 129-136
DiscoverySucceeded(actions, text, logged) ==
    /\ discovered' =
          [stage |-> "returned", threw |-> FALSE, actions |-> actions,
           error |-> NoErr, cause |-> NoErr, jsonString |-> text]
    /\ console' = console \o logged \o
          <<<<"Successfully discovered ", NumberText(Len(actions)),
              " actions:">>>> \o
          [i \in 1..Len(actions) |->
              <<"  ", NumberText(i), ". ", actions[i].name, " - ",
                actions[i].description>>]

NoMessageProperty ==
    "Agent execution returned result without message property"

\* lines 102-150: agent.execute settles and the message is cleaned, parsed
\* and validated.
AgentSettled ==
    /\ dpc = "executing"
    /\ dpc' = "done"
    /\ LET r == agentResult
           jsonString == CleanResponse(MessageChars(r))
           parsed == JsonParse(jsonString)
           validated == DiscoveredActionsResponseSchemaParse(parsed.value)
           raw == <<<<"Raw agent response:", Message(r)>>>>
       IN
       CASE r.kind = "rejected" ->
                \E e \in AgentErrors : DiscoveryFailed("agent", e, << >>, << >>)
         [] r.kind = "notObject" ->
                DiscoveryFailed("result",
                    NamedErr("Error", "Agent execution returned invalid result"),
                    << >>, << >>)
         [] r.kind = "noMessage" \/ (r.kind = "message" /\ Message(r) = "") ->
                DiscoveryFailed("message",
                    NamedErr("Error", NoMessageProperty), << >>, << >>)
         [] OTHER ->
                IF parsed.threw
                THEN DiscoveryFailed("parse",
                         NamedErr("SyntaxError", SyntaxErrorMessage),
                         <<jsonString>>, raw)
                ELSE IF validated.threw
                THEN DiscoveryFailed("validate",
                         NamedErr("ZodError", ZodErrorMessage(validated.issues)),
                         <<jsonString>>, raw)
                ELSE DiscoverySucceeded(validated.actions, <<jsonString>>, raw)
    /\ UNCHANGED agentResult
    /\ UNCHANGED notDiscoveryVars

NextDiscovery ==
    \/ AgentExecute
    \/ AgentSettled

SpecDiscovery == InitDiscovery /\ [][NextDiscovery]_vars

DiscoveryDone == dpc = "done"

---------------------------------------------------------------------------
(* Properties of discoverActions.  What a body is, is written down here by *)
(* reading its text, not computed with the parser of the model.            *)

\* The bodies that satisfy DiscoveredActionsResponseSchema.
SchemaValidBodies ==
    {EmptyCatalog, OneAction, NoParameters, NoRequired, UndeclaredPlaceholder,
     WithSchema}

\* The bodies that are JSON and violate the schema.
SchemaInvalidBodies == {MissingDescription, BadType, NotAnObject, NoActionsKey}

JsonBodies == SchemaValidBodies \cup SchemaInvalidBodies

\* The names of the actions a body lists, in order.
CatalogNames(body) ==
    CASE body = OneAction -> <<"find">>
      [] body = NoParameters -> <<"open">>
      [] body = NoRequired -> <<"find">>
      [] body = MissingDescription -> <<"open", "find">>
      [] body = BadType -> <<"find">>
      [] body = UndeclaredPlaceholder -> <<"find">>
      [] body = WithSchema -> <<"list">>
      [] OTHER -> << >>

ReturnedNames == [i \in 1..Len(discovered.actions) |-> discovered.actions[i].name]

\* The prefixes that leave the body at the head of the cleaned text.
StrippedPrefixes ==
    {NoPrefix, JsonFenceLine, UpperJsonFenceLine, BareFenceLine,
     PaddedJsonFenceLine}

MessageSettled == DiscoveryDone /\ agentResult.kind = "message"

\* C13: discoverActions returns every action of a response that validates
\* as a whole, in order, and otherwise fails and returns no action at all; a
\* response with one valid action and one action without description fails
\* entirely.
C13_CatalogAllOrNothing ==
    DiscoveryDone =>
        /\ discovered.threw => discovered.actions = << >>
        /\ ~discovered.threw =>
              /\ agentResult.kind = "message"
              /\ agentResult.body \in SchemaValidBodies
              /\ ReturnedNames = CatalogNames(agentResult.body)
        /\ agentResult.body \in SchemaInvalidBodies => discovered.threw
        /\ agentResult.body \in SchemaValidBodies
           /\ agentResult.pre \in StrippedPrefixes => ~discovered.threw

C13_Witness ==
    /\ DiscoveryDone
    /\ agentResult.body = MissingDescription
    /\ agentResult.pre = NoPrefix
    /\ agentResult.post = NoSuffix
    /\ discovered.stage = "validate"
    /\ discovered.threw
    /\ discovered.actions = << >>

\* C14: a JSON text wrapped in a leading json fence line and a trailing
\* fence, with white space around them, is cleaned to the text itself, and
\* discovery ends for it as it ends for the bare text: the same actions when
\* the text satisfies the schema, a validation failure when it does not.
C14_FencedJsonParsesAsBare ==
    /\ MessageSettled
    /\ agentResult.body \in JsonBodies
    /\ \/ agentResult.pre = NoPrefix /\ agentResult.post = NoSuffix
       \/ /\ agentResult.pre \in {JsonFenceLine, PaddedJsonFenceLine}
          /\ agentResult.post \in {FenceEnd, PaddedFenceEnd}
    => /\ discovered.jsonString = <<Chars(agentResult.body)>>
       /\ IF agentResult.body \in SchemaValidBodies
          THEN /\ discovered.stage = "returned"
               /\ ReturnedNames = CatalogNames(agentResult.body)
          ELSE discovered.stage = "validate"

C14_Witness ==
    /\ DiscoveryDone
    /\ agentResult.pre = PaddedJsonFenceLine
    /\ agentResult.body = OneAction
    /\ agentResult.post = PaddedFenceEnd
    /\ discovered.stage = "returned"
    /\ ReturnedNames = <<"find">>

\* The prefixes that are a fence line at the head of the message.
FencePrefixes ==
    {JsonFenceLine, UpperJsonFenceLine, BareFenceLine, JsFenceLine,
     PaddedJsonFenceLine}

MalformedDiscoveryResponse == {"MalformedDiscoveryResponse", "SyntaxError"}

SchemaValidationFailed == {"SchemaValidationFailed", "ZodError"}

\* The message discoverActions fails with for a body that violates the schema.
SchemaFailureMessage(body) ==
    CASE body = MissingDescription ->
             "Failed to discover actions: [invalid_type at actions.1.description]"
      [] body = BadType ->
             "Failed to discover actions: [invalid_enum_value at actions.0.parameters.0.type]"
      [] body = NotAnObject -> "Failed to discover actions: [invalid_type at ]"
      [] body = NoActionsKey -> "Failed to discover actions: [invalid_type at actions]"
      [] OTHER -> ""

ParseFailureMessage ==
    "Failed to discover actions: Unexpected token or end of JSON input"

\* C16 as stated: a response that is no JSON fails with an error of the
\* kind MalformedDiscoveryResponse, a response that violates the schema with
\* an error of the kind SchemaValidationFailed; the kind of the raised error
\* tells the two apart.
C16_DistinctErrorKinds ==
    DiscoveryDone =>
        /\ discovered.stage = "parse" =>
              discovered.error.name \in MalformedDiscoveryResponse
        /\ discovered.stage = "validate" =>
              discovered.error.name \in SchemaValidationFailed

\* C16 amended: both failures are raised as one kind of error, a plain Error
\* whose message is "Failed to discover actions: " followed by the message of
\* what failed; the message tells them apart: the parser's message for a
\* response that is no JSON, the validator's issues with the offending path
\* for a response that violates the schema.  No action is returned and no
\* repair is attempted.
C16_OneErrorKindTwoMessages ==
    MessageSettled /\ Message(agentResult) # "" =>
        /\ agentResult.body \notin JsonBodies
           \/ agentResult.pre \notin StrippedPrefixes
           => /\ discovered.stage = "parse"
              /\ discovered.threw
              /\ discovered.actions = << >>
              /\ discovered.error = NamedErr("Error", ParseFailureMessage)
        /\ agentResult.body \in SchemaInvalidBodies
           /\ agentResult.pre \in StrippedPrefixes
           => /\ discovered.stage = "validate"
              /\ discovered.threw
              /\ discovered.actions = << >>
              /\ discovered.error =
                    NamedErr("Error", SchemaFailureMessage(agentResult.body))
              /\ discovered.error.message # ParseFailureMessage

C16_Witness ==
    /\ DiscoveryDone
    /\ agentResult.pre = JsonFenceLine
    /\ agentResult.body = BadType
    /\ agentResult.post = FenceEnd
    /\ discovered.stage = "validate"
    /\ discovered.error.name = "Error"

\* The names between braces in a step.
Placeholders(step) ==
    LET cs == Chars(step)
    IN {Text(SubSeq(cs, i + 1, j - 1)) :
           <<i, j>> \in {p \in (1..Len(cs)) \X (1..Len(cs)) :
                           /\ p[1] < p[2]
                           /\ cs[p[1]] = "{"
                           /\ cs[p[2]] = "}"
                           /\ \A k \in (p[1] + 1)..(p[2] - 1) :
                                 cs[k] \notin {"{", "}"}}}

DeclaredParameters(action) ==
    IF action.parameters = << >> THEN {}
    ELSE {action.parameters[1][i].name : i \in 1..Len(action.parameters[1])}

\* A console line that reports a placeholder.
PlaceholderReported ==
    \E i \in 1..Len(console) : \E j \in 1..Len(console[i]) :
        console[i][j] \in {"placeholder", "undeclared parameter"}

\* C17: every placeholder in the steps of a returned action names a
\* parameter the action declares, or the violation is surfaced (the call
\* fails or reports it).
C17_PlaceholdersDeclared ==
    DiscoveryDone /\ ~discovered.threw =>
        \/ PlaceholderReported
        \/ \A i \in 1..Len(discovered.actions) :
             \A s \in 1..Len(discovered.actions[i].steps) :
                Placeholders(discovered.actions[i].steps[s])
                    \subseteq DeclaredParameters(discovered.actions[i])

\* C18: every returned action has a parameters sequence, each entry with a
\* name, a type among string, number and boolean, a description and a
\* required flag; a response in which an action has no parameters or a
\* parameter has another type is rejected as a whole.
C18_ParametersAlwaysPresent ==
    DiscoveryDone =>
        /\ ~discovered.threw =>
              \A i \in 1..Len(discovered.actions) :
                 /\ discovered.actions[i].parameters # << >>
                 /\ \A k \in 1..Len(discovered.actions[i].parameters[1]) :
                       /\ discovered.actions[i].parameters[1][k].type
                              \in {"string", "number", "boolean"}
                       /\ discovered.actions[i].parameters[1][k].required
                              # << >>
        /\ agentResult.body \in {NoParameters, BadType} =>
              discovered.threw /\ discovered.actions = << >>

---------------------------------------------------------------------------
(* getStagehandInstance (the module-level cached handle) and the context   *)
(* store behind getOrCreateContext.  Processes run one after another; the  *)
(* module-level variable lives as long as its process, the persisted       *)
(* mapping outlives it.                                                    *)

MaxSessionCalls == 3

MaxProcesses == 2

\* What the caller passes and the environment holds: everything, or one of
\* modelApiKey, modelName and BROWSERBASE_PROJECT_ID missing.
Configs == {"ok", "noApiKey", "noModelName", "noProjectId"}

\* options?.persistContext: no option, true or false.
PersistOptions == {<< >>, <<TRUE>>, <<FALSE>>}

ConfigError(config) ==
    CASE config = "noApiKey" ->
             "Missing API key. Set an API key in your environment."
      [] config = "noModelName" ->
             "Missing model name. Set a model name in your environment."
      [] config = "noProjectId" ->
             "Missing BROWSERBASE_PROJECT_ID in environment variables"

SessionProvisioningFailed == "SessionProvisioningFailed"

InitFailed == "init failed"

\* What the session API answers to a request for a new context.
ApiOutcomes == {"created", "unreachable"}

SessionEvent(op, d, id, outcome) ==
    [op |-> op, domain |-> d, id |-> id, outcome |-> outcome,
     process |-> process]

EventsOf(op) == {i \in 1..Len(sessionLog) : sessionLog[i].op = op}

\* The contexts the session API has created so far; it never hands out the
\* same identifier twice.
ContextsCreated ==
    Cardinality({i \in EventsOf("createContext") :
                    sessionLog[i].outcome = "returned"})

NewContextId == "ctx-" \o NumberText(ContextsCreated + 1)

\* The calls made so far, the pending one included.
SessionCallsMade ==
    Cardinality(EventsOf("getStagehandInstance") \cup EventsOf("manageContexts"))
    + (IF spc = "idle" THEN 0 ELSE 1)

\* getOrCreate(domain): the persisted identifier when there is one;
\* otherwise a new context is requested from the session API, its
\* identifier is persisted and returned; an unreachable API is surfaced as
\* SessionProvisioningFailed.
getOrCreateContext(store, d, api) ==
    IF store[d] # << >>
    THEN [threw |-> FALSE, id |-> store[d][1], store |-> store,
          events |-> <<SessionEvent("getOrCreateContext", d, store[d][1],
                                    "returned")>>]
    ELSE IF api = "created"
    THEN [threw |-> FALSE, id |-> NewContextId,
          store |-> [store EXCEPT ![d] = <<NewContextId>>],
          events |-> <<SessionEvent("createContext", d, NewContextId, "returned"),
                       SessionEvent("getOrCreateContext", d, NewContextId,
                                    "returned")>>]
    ELSE [threw |-> TRUE, id |-> "", store |-> store,
          events |-> <<SessionEvent("createContext", d, "", "raised"),
                       SessionEvent("getOrCreateContext", d, "", "raised")>>]

\* lines 48-55 without the context
BrowserSettings_undefined(contextId) == << >>

\* lines 48-55: browserSettings (<< >>: undefined)
BrowserSettings(contextId) ==
    IF TruthyString(contextId)
    THEN <<[context |-> [id |-> contextId[1], persist |-> TRUE]]>>
    ELSE << >>

\* lines 42-62: new Stagehand({...}); serial tells the instances apart.
NewStagehand(d, contextId) ==
    [serial |-> Cardinality(EventsOf("new Stagehand")) + 1,
     cacheDir |-> "mcp-stagehand-" \o d,
     browserSettings |-> BrowserSettings(contextId),
     initialised |-> FALSE]

\* The context identifier a handle was made with ("": none).
ContextOf(handle) ==
    IF handle.browserSettings = << >> THEN ""
    ELSE handle.browserSettings[1].context.id

NewCall(fn, d, config, opt) ==
    [fn |-> fn, domain |-> d, config |-> config, persistContext |-> opt,
     outcome |-> "pending", handle |-> << >>, error |-> ""]

\* The call returns the handle.
SessionReturn(call, handle, events) ==
    /\ sessionCall' = [call EXCEPT !.outcome = "returned", !.handle = <<handle>>]
    /\ sessionLog' = sessionLog \o events \o
          <<SessionEvent("getStagehandInstance", call.domain,
                         ContextOf(handle), "returned")>>
    /\ spc' = "idle"

\* The call raises.
SessionRaise(call, error, events) ==
    /\ sessionCall' = [call EXCEPT !.outcome = "raised", !.error = error]
    /\ sessionLog' = sessionLog \o events \o
          <<SessionEvent("getStagehandInstance", call.domain, "", "raised")>>
    /\ spc' = "idle"

\* lines 42-63: the handle is made and stored, and init() is awaited.
Construct(call, contextId, events) ==
    /\ stagehandInstance' = <<NewStagehand(call.domain, contextId)>>
    /\ sessionCall' = call
    /\ sessionLog' = sessionLog \o events \o
          <<SessionEvent("new Stagehand", call.domain,
                         ContextOf(NewStagehand(call.domain, contextId)),
                         "returned")>>
    /\ spc' = "init"

\* lines 17-40: a call, up to its first await or its completion.
GetStagehandInstance ==
    /\ spc = "idle"
    /\ SessionCallsMade < MaxSessionCalls
    /\ \E d \in Domains, config \in Configs, opt \in PersistOptions :
        LET call == NewCall("getStagehandInstance", d, config, opt)
            persistContext == IF opt = << >> THEN TRUE ELSE opt[1]
        IN IF stagehandInstance # << >>
           THEN /\ SessionReturn(call, stagehandInstance[1], << >>)
                /\ UNCHANGED stagehandInstance
           ELSE IF config # "ok"
           THEN /\ SessionRaise(call, ConfigError(config), << >>)
                /\ UNCHANGED stagehandInstance
           ELSE IF persistContext
           THEN /\ spc' = "context"
                /\ sessionCall' = call
                /\ UNCHANGED <<stagehandInstance, sessionLog>>
           ELSE Construct(call, << >>, << >>)
    /\ UNCHANGED <<contextStore, process>>
    /\ UNCHANGED notSessionVars

\* line 39 and lines 42-63: getOrCreateContext settles.
ContextSettled ==
    /\ spc = "context"
    /\ \E api \in ApiOutcomes :
        LET r == getOrCreateContext(contextStore, sessionCall.domain, api)
        IN /\ contextStore' = r.store
           /\ IF r.threw
              THEN /\ SessionRaise(sessionCall, SessionProvisioningFailed,
                                   r.events)
                   /\ UNCHANGED stagehandInstance
              ELSE Construct(sessionCall, <<r.id>>, r.events)
    /\ UNCHANGED process
    /\ UNCHANGED notSessionVars

\* lines 63-65: init() settles.
InitSettled ==
    /\ spc = "init"
    /\ \E ok \in BOOLEAN :
        IF ok
        THEN /\ stagehandInstance' =
                    <<[stagehandInstance[1] EXCEPT !.initialised = TRUE]>>
             /\ SessionReturn(sessionCall, stagehandInstance'[1], << >>)
        ELSE /\ SessionRaise(sessionCall, InitFailed, << >>)
             /\ UNCHANGED stagehandInstance
    /\ UNCHANGED <<contextStore, process>>
    /\ UNCHANGED notSessionVars

\* `mcpkit contexts create <domain>`: getOrCreate called on its own.
ManageContextsCreate ==
    /\ spc = "idle"
    /\ SessionCallsMade < MaxSessionCalls
    /\ \E d \in Domains, api \in ApiOutcomes :
        LET r == getOrCreateContext(contextStore, d, api)
            call == NewCall("manageContexts", d, "ok", << >>)
        IN /\ contextStore' = r.store
           /\ sessionCall' =
                 [call EXCEPT !.outcome = IF r.threw THEN "raised" ELSE "returned",
                              !.error = IF r.threw THEN SessionProvisioningFailed
                                        ELSE ""]
           /\ sessionLog' = sessionLog \o r.events \o
                 <<SessionEvent("manageContexts", d, r.id,
                                IF r.threw THEN "raised" ELSE "returned")>>
    /\ UNCHANGED <<spc, stagehandInstance, process>>
    /\ UNCHANGED notSessionVars

\* line 7: the process ends and the next one starts with the module-level
\* variable null; what was persisted stays.
NewProcess ==
    /\ spc = "idle"
    /\ process < MaxProcesses
    /\ sessionLog # << >>
    /\ sessionLog[Len(sessionLog)].process = process
    /\ process' = process + 1
    /\ stagehandInstance' = << >>
    /\ sessionCall' = NoSessionCall
    /\ UNCHANGED <<spc, contextStore, sessionLog>>
    /\ UNCHANGED notSessionVars

InitSession ==
    /\ AuthIdle
    /\ console = << >>
    /\ DiscoveryIdle
    /\ SessionIdle
    /\ CoordIdle
    /\ UrlIdle
    /\ ModelIdle
    /\ ServerIdle

NextSession ==
    \/ GetStagehandInstance
    \/ ContextSettled
    \/ InitSettled
    \/ ManageContextsCreate
    \/ NewProcess

SpecSession == InitSession /\ [][NextSession]_vars

---------------------------------------------------------------------------
(* Properties of the context store and of getStagehandInstance.            *)

\* The getOrCreate calls for d that returned, and the requests for a new
\* context made for d.
GetOrCreateReturns(d) ==
    {i \in EventsOf("getOrCreateContext") :
        sessionLog[i].domain = d /\ sessionLog[i].outcome = "returned"}

Provisionings(d) ==
    {i \in EventsOf("createContext") : sessionLog[i].domain = d}

---------------------------------------------------------------------------
(* normalizeUrl and isValidUrlInput.  `new URL(text)` is the URL parser of  *)
(* the platform, here for the texts normalizeUrl hands it: they start with *)
(* http:// or https:// in lower case and hold letters, digits, dots,       *)
(* colons, slashes, spaces, ? and #.                                       *)

\* What is given as [url] on the command line or typed at the prompt.
UrlInputs ==
    {"a.io",
     "www.a.io",
     "https://a.io",
     "http://a.io",
     "https://a.io/",
     "  a.io \n",
     " https://a.io",
     "A.IO",
     "HTTP://a.io",
     "Https://a.io",
     "https://A.io/Home",
     "a.io/a b",
     "a.io:443",
     "a.io:8080",
     "http://a.io:80",
     "a.io:80",
     "a.io:",
     "a.io:b",
     "a.io:99999",
     "a.io:0443",
     "",
     " \t ",
     "https://",
     "http://",
     "a io",
     "https://a io",
     "https:///a.io",
     "a.io?q",
     "a.io#f",
     "a.io/?",
     "a.io/./b/../o",
     "a.io/..",
     "ftp://a.io",
     "http:a.io",
     "https:/a.io",
     "//a.io",
     "/",
     "a.io\\o",
     "http://a.io/a?b c#o o",
     "a.io/b/"}

HttpLead == <<"h", "t", "t", "p", ":", "/", "/">>

HttpsLead == <<"h", "t", "t", "p", "s", ":", "/", "/">>

Slashes == {"/", "\\"}

\* The first position of cs that holds a character of set (Len(cs) + 1:
\* none).
RECURSIVE IndexOfAny(_, _, _)
IndexOfAny(cs, set, i) ==
    IF i > Len(cs) \/ cs[i] \in set THEN i ELSE IndexOfAny(cs, set, i + 1)

From(cs, i) == SubSeq(cs, i, Len(cs))

Before(cs, i) == SubSeq(cs, 1, i - 1)

\* The slashes between the scheme and the authority are skipped, however
\* many there are.
RECURSIVE SkipSlashes(_)
SkipSlashes(cs) ==
    IF cs # << >> /\ Head(cs) \in Slashes THEN SkipSlashes(Tail(cs)) ELSE cs

\* A space is written %20 in the path, the query and the fragment.
RECURSIVE PercentEncode(_)
PercentEncode(cs) ==
    IF cs = << >> THEN << >>
    ELSE (IF Head(cs) = " " THEN <<"%", "2", "0">> ELSE <<Head(cs)>>)
         \o PercentEncode(Tail(cs))

\* The characters a host cannot hold.
ForbiddenHostChars == {" ", "\t", "\n", "\r", "#", "/", ":", "?", "\\"}

MaxPort == 65535

DigitValue(c) == CHOOSE n \in 0..9 : DigitText[n + 1] = c

\* The number a port text stands for; MaxPort + 1 for anything larger.
RECURSIVE PortNumber(_, _)
PortNumber(cs, acc) ==
    IF cs = << >> THEN acc
    ELSE IF acc * 10 + DigitValue(Head(cs)) > MaxPort THEN MaxPort + 1
    ELSE PortNumber(Tail(cs), acc * 10 + DigitValue(Head(cs)))

RECURSIVE NatChars(_)
NatChars(n) ==
    IF n < 10 THEN <<DigitText[n + 1]>>
    ELSE NatChars(n \div 10) \o <<DigitText[(n % 10) + 1]>>

DefaultPort(protocol) == IF protocol = <<"h", "t", "t", "p">> THEN 80 ELSE 443

\* The port of the URL: none when the text is empty or names the scheme's
\* default port.
PortOf(protocol, cs) ==
    IF cs = << >> \/ PortNumber(cs, 0) = DefaultPort(protocol) THEN << >>
    ELSE NatChars(PortNumber(cs, 0))

\* The segments of a path text that starts with a slash.
RECURSIVE Segments(_)
Segments(cs) ==
    LET k == IndexOfAny(cs, Slashes, 2)
    IN IF k > Len(cs) THEN <<From(cs, 2)>>
       ELSE <<SubSeq(cs, 2, k - 1)>> \o Segments(From(cs, k))

\* The segments with . and .. resolved; done holds what is kept so far.
RECURSIVE ResolveDots(_, _)
ResolveDots(segs, done) ==
    IF segs = << >> THEN done
    ELSE LET s == Head(segs)
             last == Len(segs) = 1
         IN IF s = <<".", ".">>
            THEN ResolveDots(Tail(segs),
                     (IF done = << >> THEN done
                      ELSE SubSeq(done, 1, Len(done) - 1))
                     \o (IF last THEN <<<< >>>> ELSE << >>))
            ELSE IF s = <<".">>
            THEN ResolveDots(Tail(segs),
                             done \o (IF last THEN <<<< >>>> ELSE << >>))
            ELSE ResolveDots(Tail(segs), Append(done, PercentEncode(s)))

RECURSIVE JoinPath(_)
JoinPath(segs) ==
    IF segs = << >> THEN << >>
    ELSE <<"/">> \o Head(segs) \o JoinPath(Tail(segs))

\* pathname: / for an empty path.
PathOf(cs) ==
    IF cs = << >> THEN <<"/">>
    ELSE JoinPath(ResolveDots(Segments(cs), << >>))

\* The parser first drops every tab, line feed and carriage return.
RECURSIVE RemoveTabNewline(_)
RemoveTabNewline(cs) ==
    IF cs = << >> THEN << >>
    ELSE (IF Head(cs) \in {"\t", "\n", "\r"} THEN << >> ELSE <<Head(cs)>>)
         \o RemoveTabNewline(Tail(cs))

\* new URL(input) for a text that starts with http:// or https://.
NewURL(input) ==
    LET text == RemoveTabNewline(input)
        colon == IndexOfAny(text, {":"}, 1)
        protocol == Before(text, colon)
        rest == SkipSlashes(From(text, colon + 1))
        authorityEnd == IndexOfAny(rest, Slashes \cup {"?", "#"}, 1)
        authority == Before(rest, authorityEnd)
        hostEnd == IndexOfAny(authority, {":"}, 1)
        host == Before(authority, hostEnd)
        portText == From(authority, hostEnd + 1)
        tail == From(rest, authorityEnd)
        pathEnd == IndexOfAny(tail, {"?", "#"}, 1)
        afterPath == From(tail, pathEnd)
        queryEnd == IndexOfAny(afterPath, {"#"}, 1)
        valid ==
            /\ host # << >>
            /\ \A k \in 1..Len(host) : host[k] \notin ForbiddenHostChars
            /\ \A k \in 1..Len(portText) : portText[k] \in Digits
            /\ PortNumber(portText, 0) <= MaxPort
    IN IF ~valid THEN [threw |-> TRUE, url |-> NoUrl]
       ELSE [threw |-> FALSE,
             url |->
               [protocol |-> protocol,
                hostname |-> toLowerCase(host),
                port |-> PortOf(protocol, portText),
                pathname |-> PathOf(Before(tail, pathEnd)),
                search |->
                    IF afterPath # << >> /\ Head(afterPath) = "?"
                    THEN <<PercentEncode(SubSeq(afterPath, 2, queryEnd - 1))>>
                    ELSE << >>,
                hash |->
                    IF queryEnd <= Len(afterPath)
                    THEN <<PercentEncode(From(afterPath, queryEnd + 1))>>
                    ELSE << >>]]

\* url.href, which is also url.toString()
Href(url) ==
    url.protocol \o <<":", "/", "/">> \o url.hostname
    \o (IF url.port = << >> THEN << >> ELSE <<":">> \o url.port)
    \o url.pathname
    \o (IF url.search = << >> THEN << >> ELSE <<"?">> \o url.search[1])
    \o (IF url.hash = << >> THEN << >> ELSE <<"#">> \o url.hash[1])

InvalidUrlFormat == "Invalid URL format"

InvalidUrlFormatLong ==
    "Invalid URL format. Please provide a valid URL (e.g., https://example.com, www.example.com, or example.com)"

UrlResult(parsed, message) ==
    IF parsed.threw
    THEN [threw |-> TRUE, url |-> NoUrl, message |-> message]
    ELSE [threw |-> FALSE, url |-> parsed.url, message |-> ""]

\* lines 12-36 with the scheme added to every input
normalizeUrl_alwaysPrefix(input) ==
    UrlResult(NewURL(HttpsLead \o trim(input)), InvalidUrlFormatLong)

\* lines 12-36 without the trim of line 14
normalizeUrl_noTrim(input) ==
    IF StartsWith(input, HttpLead) \/ StartsWith(input, HttpsLead)
    THEN UrlResult(NewURL(input), InvalidUrlFormat)
    ELSE UrlResult(NewURL(HttpsLead \o input), InvalidUrlFormatLong)

\* lines 12-36: input is the text as characters.
normalizeUrl(input) ==
    LET url == trim(input)
    IN IF StartsWith(url, HttpLead) \/ StartsWith(url, HttpsLead)
       THEN UrlResult(NewURL(url), InvalidUrlFormat)
       ELSE UrlResult(NewURL(HttpsLead \o url), InvalidUrlFormatLong)

\* lines 41-48 without the catch
isValidUrlInput_uncaught(input) ==
    IF normalizeUrl(input).threw
    THEN Raised(Err(TRUE, normalizeUrl(input).message))
    ELSE Returned(TRUE)

\* lines 41-48
isValidUrlInput(input) ==
    IF normalizeUrl(input).threw THEN Returned(FALSE) ELSE Returned(TRUE)

ValidateMessage ==
    "Please enter a valid URL (e.g., https://example.com, www.example.com, or example.com)"

InitUrl ==
    /\ AuthIdle
    /\ console = << >>
    /\ DiscoveryIdle
    /\ SessionIdle
    /\ CoordIdle
    /\ ModelIdle
    /\ ServerIdle
    /\ upc \in {"arg", "prompt"}
    /\ urlInput \in UrlInputs
    /\ urlValid = << >>
    /\ urlResult = NoUrlResult

\* cli.ts lines 66-71: the prompt's validate on what was typed.
ValidateInput ==
    /\ upc = "prompt"
    /\ urlValid' = <<isValidUrlInput(Chars(urlInput))>>
    /\ upc' = IF urlValid'[1].threw THEN "raised"
              ELSE IF urlValid'[1].value THEN "accepted" ELSE "rejected"
    /\ UNCHANGED <<urlInput, urlResult>>
    /\ UNCHANGED notUrlVars

\* The prompt shows the message and the user types again.
Reprompt ==
    /\ upc = "rejected"
    /\ upc' = "prompt"
    /\ urlInput' \in UrlInputs
    /\ urlValid' = << >>
    /\ UNCHANGED urlResult
    /\ UNCHANGED notUrlVars

\* cli.ts lines 61-65: without a [url] argument the prompt asks for one.
ArgMissing ==
    /\ upc = "arg"
    /\ urlInput = ""
    /\ upc' = "prompt"
    /\ urlInput' \in UrlInputs
    /\ UNCHANGED <<urlValid, urlResult>>
    /\ UNCHANGED notUrlVars

\* cli.ts line 87
NormalizeUrl ==
    /\ upc \in {"arg", "accepted"}
    /\ urlInput # ""
    /\ urlResult' = normalizeUrl(Chars(urlInput))
    /\ upc' = IF urlResult'.threw THEN "raised" ELSE "normalized"
    /\ UNCHANGED <<urlInput, urlValid>>
    /\ UNCHANGED notUrlVars

NextUrl ==
    \/ ArgMissing
    \/ ValidateInput
    \/ Reprompt
    \/ NormalizeUrl

SpecUrl == InitUrl /\ [][NextUrl]_vars

---------------------------------------------------------------------------
(* getModel and its module-level cache.  MODEL_PROVIDER and MODEL_API_KEY  *)
(* are what loadEnv reads; they stay as they are while a process runs.     *)

MaxModelCalls == 3

\* The values MODEL_PROVIDER is set to.
ModelProviders ==
    {"",
     "openai/gpt-4o",
     "anthropic/claude-3-5-sonnet",
     "google/gemini-2.5-flash",
     "xai/grok-2",
     "openai/",
     "mistral/large",
     "openai",
     "OpenAI/gpt-4o",
     " openai/gpt-4o",
     "gpt-4o",
     "xai",
     "azure/openai/gpt-4o",
     "google/openai/x",
     "groq/xai/grok-2"}

ModelApiKeys == {"", "key"}

\* The prefixes of lines 78-93, in the order they are tested.
ProviderPrefixes == <<"openai/", "anthropic/", "google/", "xai/">>

\* lines 78-93 without the xai branch
ProviderOf_noXai(modelProvider) ==
    LET matching == {i \in 1..3 : StartsWith(Chars(modelProvider),
                                             Chars(ProviderPrefixes[i]))}
    IN IF matching = {} THEN << >>
       ELSE <<ProviderPrefixes[CHOOSE i \in matching :
                                  \A j \in matching : i <= j]>>

\* lines 78-93: the first prefix MODEL_PROVIDER starts with (<< >>: none).
ProviderOf(modelProvider) ==
    LET matching == {i \in 1..Len(ProviderPrefixes) :
                        StartsWith(Chars(modelProvider),
                                   Chars(ProviderPrefixes[i]))}
    IN IF matching = {} THEN << >>
       ELSE <<ProviderPrefixes[CHOOSE i \in matching :
                                  \A j \in matching : i <= j]>>

\* MODEL_PROVIDER.replace(prefix, "") for a text that starts with prefix.
ModelName(modelProvider, prefix) ==
    Text(From(Chars(modelProvider), Len(Chars(prefix)) + 1))

\* What the provider's factory returns for a model name.
LanguageModel(prefix, modelName, apiKey) ==
    [factory |-> prefix, modelName |-> modelName, apiKey |-> apiKey]

NoModel == LanguageModel("", "", "")

UnsupportedModelProvider(modelProvider) ==
    Err(TRUE, "Unsupported model provider: " \o modelProvider
              \o ". Must start with openai/, anthropic/, google/, or xai/")

ModelCompletion(threw, model, error, cached, logged) ==
    [threw |-> threw, model |-> model, error |-> error, cached |-> cached,
     logged |-> logged]

\* lines 68-101 with a fallback where line 95 raises
getModel_lenient(cached, env) ==
    IF cached # << >>
    THEN ModelCompletion(FALSE, cached[1], Err(FALSE, ""), cached, << >>)
    ELSE LET prefix == IF ProviderOf(env.MODEL_PROVIDER) = << >>
                       THEN "openai/"
                       ELSE ProviderOf(env.MODEL_PROVIDER)[1]
             model == LanguageModel(prefix, env.MODEL_PROVIDER,
                                    env.MODEL_API_KEY)
         IN ModelCompletion(FALSE, model, Err(FALSE, ""), <<model>>,
                            <<<<"Using model: ", env.MODEL_PROVIDER>>>>)

\* lines 68-101: the cached model if there is one; otherwise the model of
\* the provider the prefix names, which is cached, or an error.
getModel(cached, env) ==
    IF cached # << >>
    THEN ModelCompletion(FALSE, cached[1], Err(FALSE, ""), cached, << >>)
    ELSE IF ProviderOf(env.MODEL_PROVIDER) = << >>
    THEN ModelCompletion(TRUE, NoModel,
                         UnsupportedModelProvider(env.MODEL_PROVIDER), cached,
                         <<<<"Using model: ", env.MODEL_PROVIDER>>>>)
    ELSE LET prefix == ProviderOf(env.MODEL_PROVIDER)[1]
             model == LanguageModel(prefix,
                                    ModelName(env.MODEL_PROVIDER, prefix),
                                    env.MODEL_API_KEY)
         IN ModelCompletion(FALSE, model, Err(FALSE, ""), <<model>>,
                            <<<<"Using model: ", env.MODEL_PROVIDER>>>>)

InitModel ==
    /\ AuthIdle
    /\ console = << >>
    /\ DiscoveryIdle
    /\ SessionIdle
    /\ CoordIdle
    /\ UrlIdle
    /\ ServerIdle
    /\ modelEnv \in [MODEL_PROVIDER : ModelProviders,
                     MODEL_API_KEY : ModelApiKeys]
    /\ cachedModel = << >>
    /\ modelLog = << >>

\* One call of getModel.
GetModel ==
    /\ Len(modelLog) < MaxModelCalls
    /\ LET r == getModel(cachedModel, modelEnv)
       IN /\ cachedModel' = r.cached
          /\ console' = console \o r.logged
          /\ modelLog' = Append(modelLog,
                [threw |-> r.threw, model |-> r.model, error |-> r.error])
    /\ UNCHANGED modelEnv
    /\ UNCHANGED notModelVars

NextModel == GetModel

SpecModel == InitModel /\ [][NextModel]_vars

---------------------------------------------------------------------------
(* One `mcpkit create` run: main and runCreate of cli.ts, and between them *)
(* createMCPServer, which obtains the handle, authenticates unless told to *)
(* skip, discovers the actions and hands them to the generator.            *)

\* args[1] and the answer to the prompt (<< >>: none given); the texts
\* normalizeUrl turns into Url.
CliUrls == {<< >>, <<Url>>, <<"a.io">>, <<"  a.io \n">>}

\* What the agent settles with in a create run.
RunAgentResults ==
    {[kind |-> "rejected", pre |-> "", body |-> "", post |-> ""]}
    \cup
    {[kind |-> "message", pre |-> NoPrefix, body |-> b, post |-> NoSuffix] :
        b \in {EmptyCatalog, Prose, NoActionsKey}}
    \cup
    {[kind |-> "message", pre |-> JsonFenceLine, body |-> b, post |-> FenceEnd] :
        b \in {OneAction, MissingDescription, Truncated}}

GeneratorError == Err(TRUE, "generation failed")

\* The configuration of a create run: a provider getModel knows, or not.
RunModelEnvs ==
    {[MODEL_PROVIDER |-> provider, MODEL_API_KEY |-> "key"] :
        provider \in {"google/gemini-2.5-flash", "mistral/large"}}

InitCreate ==
    /\ AuthIdle
    /\ console = << >>
    /\ DiscoveryIdle
    /\ SessionIdle
    /\ UrlIdle
    /\ ServerIdle
    /\ modelEnv \in RunModelEnvs
    /\ cachedModel = << >>
    /\ modelLog = << >>
    /\ cpc = "runCreate"
    /\ skipAuth \in BOOLEAN
    /\ generatorCalls = << >>
    /\ createError = << >>
    /\ exitCode = << >>

\* cli.ts lines 58-90, up to the call of createMCPServer.
RunCreate ==
    /\ cpc = "runCreate"
    /\ \E url \in CliUrls, response \in CliUrls :
        IF url = << >> /\ response = << >>
        THEN /\ console' = console \o <<<<"MCP Server Generator">>,
                                         <<"URL is required">>>>
             /\ exitCode' = <<1>>
             /\ cpc' = "exited"
        ELSE LET given == IF url # << >> THEN url[1] ELSE response[1]
                 normalizedUrl == normalizeUrl(Chars(given))
             IN /\ ~normalizedUrl.threw
                /\ Text(Href(normalizedUrl.url)) = Url
                /\ console' = console \o <<<<"MCP Server Generator">>>>
                /\ exitCode' = exitCode
                /\ cpc' = "model"
    /\ UNCHANGED <<skipAuth, generatorCalls, createError>>
    /\ UNCHANGED <<authState, discoveryVars, sessionVars, urlVars,
                   modelVars, serverVars>>

\* createMCPServer resolves the provider configuration first.
CreateResolvesModel ==
    /\ cpc = "model"
    /\ modelLog = << >>
    /\ GetModel

\* getModel returned, or raised UnsupportedModelProvider.
ModelSettled ==
    /\ cpc = "model"
    /\ modelLog # << >>
    /\ IF modelLog[1].threw
       THEN /\ cpc' = "settled"
            /\ createError' = <<modelLog[1].error>>
       ELSE /\ cpc' = "handle"
            /\ UNCHANGED createError
    /\ UNCHANGED <<authState, discoveryVars, generatorCalls>>
    /\ UNCHANGED <<console, sessionVars, skipAuth, exitCode, urlVars,
                   modelVars, serverVars>>

\* createMCPServer asks for the handle of the run's domain.
CreateGetsHandle ==
    /\ cpc = "handle"
    /\ sessionCall.fn = "none"
    /\ GetStagehandInstance
    /\ sessionCall'.domain = Domain
    /\ sessionCall'.persistContext = << >>

\* The authentication begins.
StartAuthentication ==
    /\ cpc' = "auth"
    /\ pc' = "awaitActivePage"
    /\ UNCHANGED <<analysis, credentials, userInput, result, thrown, calls,
                   analysisAt, lastAnalyzer>>
    /\ UNCHANGED <<discoveryVars, generatorCalls, createError>>

\* The discovery begins.
StartDiscovery ==
    /\ cpc' = "discovery"
    /\ dpc' = "start"
    /\ agentResult' \in RunAgentResults
    /\ UNCHANGED <<discovered, authState, generatorCalls, createError>>

\* createMCPServer raises e.
CreateFails(e) ==
    /\ cpc' = "settled"
    /\ createError' = <<e>>
    /\ UNCHANGED <<authState, discoveryVars, generatorCalls>>

\* The handle is there, or getStagehandInstance raised.
HandleSettled ==
    /\ cpc = "handle"
    /\ spc = "idle"
    /\ sessionCall.outcome \in {"returned", "raised"}
    /\ IF sessionCall.outcome = "raised"
       THEN CreateFails(Err(TRUE, sessionCall.error))
       ELSE IF skipAuth THEN StartDiscovery
       ELSE StartAuthentication
    /\ UNCHANGED <<console, sessionVars, skipAuth, exitCode, urlVars,
                   modelVars, serverVars>>

\* authenticateToWebsite returned or raised.
AuthSettled ==
    /\ cpc = "auth"
    /\ pc = "done"
    /\ IF result = "Failed"
       THEN CreateFails(thrown[1])
       ELSE StartDiscovery
    /\ UNCHANGED <<console, sessionVars, skipAuth, exitCode, urlVars,
                   modelVars, serverVars>>

\* discoverActions returned the catalog, which goes to the generator with
\* the domain, or raised.
DiscoverySettled ==
    /\ cpc = "discovery"
    /\ dpc = "done"
    /\ IF discovered.threw
       THEN CreateFails(discovered.error)
       ELSE /\ cpc' = "generator"
            /\ generatorCalls' =
                  Append(generatorCalls,
                         [domain |-> Domain, actions |-> discovered.actions])
            /\ UNCHANGED <<authState, discoveryVars, createError>>
    /\ UNCHANGED <<console, sessionVars, skipAuth, exitCode, urlVars,
                   modelVars, serverVars>>

\* The generator returned or raised.
GeneratorSettled ==
    /\ cpc = "generator"
    /\ cpc' = "settled"
    /\ \E ok \in BOOLEAN :
        createError' = IF ok THEN << >> ELSE <<GeneratorError>>
    /\ UNCHANGED <<console, sessionVars, skipAuth, exitCode, generatorCalls,
                   urlVars,
                   modelVars, serverVars>>
    /\ UNCHANGED <<authState, discoveryVars>>

\* cli.ts lines 122-123 and 145-152: the command returned, or raised and
\* the catch of main reports it.
MainExit ==
    /\ cpc = "settled"
    /\ cpc' = "exited"
    /\ IF createError = << >>
       THEN /\ exitCode' = <<0>>
            /\ console' = console
       ELSE /\ exitCode' = <<1>>
            /\ console' = console \o <<<<"Error:", ErrorText(createError[1])>>>>
    /\ UNCHANGED <<skipAuth, generatorCalls, createError>>
    /\ UNCHANGED <<authState, discoveryVars, sessionVars, urlVars,
                   modelVars, serverVars>>

NextCreate ==
    \/ RunCreate
    \/ CreateResolvesModel
    \/ ModelSettled
    \/ CreateGetsHandle
    \/ ContextSettled
    \/ InitSettled
    \/ HandleSettled
    \/ Next
    \/ AuthSettled
    \/ NextDiscovery
    \/ DiscoverySettled
    \/ GeneratorSettled
    \/ MainExit

SpecCreate == InitCreate /\ [][NextCreate]_vars

---------------------------------------------------------------------------
(* The generated server (news_ycombinator_com_mcp_server): initStagehand   *)
(* and the module-level stagehand behind it.  Every tool-call request runs *)
(* the handler; a handler gives way to the others at each await, so the    *)
(* requests of one process interleave there.                               *)

\* process.env.BROWSERBASE_CONTEXT_ID and the content of the file
\* ~/.mcpkit/contexts/<domain>.txt (<< >>: it cannot be read).
ServerEnvs ==
    [BROWSERBASE_CONTEXT_ID : {"", "ctx-env"},
     saved : {<< >>, <<"ctx-saved">>, <<"ctx-saved\n">>, <<"">>, <<" \n">>}]

\* getSavedContextId(domain), lines 67-81: the trimmed content of the file,
\* or null (<< >>) when reading it fails.
getSavedContextId_none(saved) == << >>

getSavedContextId(saved) ==
    IF saved = << >> THEN << >> ELSE <<Text(trim(Chars(saved[1])))>>

\* The calls of op the log holds.
ServerEvents(op) ==
    {i \in 1..Len(serverLog) : serverLog[i].op = op}

\* The contexts createNewContext has obtained from the API so far.
ServerContextsCreated ==
    {i \in ServerEvents("createNewContext") : serverLog[i].ok}

\* The id the API gives the next context.
ServerNewContextId ==
    "ctx-" \o NumberText(Cardinality(ServerContextsCreated) + 1)

\* new Stagehand({...}): the n-th instance of the process, with the
\* browserSettings of lines 174-181.
NewServerStagehand(n, contextId) ==
    [serial |-> n,
     browserSettings |->
        IF contextId # << >> /\ contextId[1] # ""
        THEN <<[context |-> [id |-> contextId[1], persist |-> TRUE]]>>
        ELSE << >>]

\* init() of the instance has resolved: it has a browserbaseSessionId.
Initialised(log, serial) ==
    \E i \in 1..Len(log) :
        log[i].op = "init" /\ log[i].serial = serial /\ log[i].ok

StagehandInitFailed == "stagehand init failed"

InitServer ==
    /\ AuthIdle
    /\ console = << >>
    /\ DiscoveryIdle
    /\ SessionIdle
    /\ CoordIdle
    /\ UrlIdle
    /\ ModelIdle
    /\ serverEnv \in ServerEnvs
    /\ stagehand = << >>
    /\ requests = [r \in Requests |-> NoRequest]
    /\ pages = << >>
    /\ serverLog = << >>

\* A tool-call request arrives: the handler starts (line 346) and calls
\* initStagehand.
ToolCallArrives(r) ==
    /\ requests[r].pc = "none"
    /\ requests' = [requests EXCEPT ![r].pc = "initStagehand"]
    /\ UNCHANGED <<serverEnv, stagehand, pages, serverLog, console>>
    /\ UNCHANGED notServerVars

\* initStagehand up to its first await (lines 163-168): a set stagehand is
\* returned; otherwise getOrCreateContextId runs up to the environment's
\* id (lines 132-134) or to the read of the saved context (line 137).
InitStagehand(r) ==
    /\ requests[r].pc = "initStagehand"
    /\ IF stagehand # << >>
       THEN requests' = [requests EXCEPT ![r].pc = "page",
                                         ![r].handle = stagehand[1].serial]
       ELSE IF serverEnv.BROWSERBASE_CONTEXT_ID # ""
       THEN requests' =
                [requests EXCEPT
                    ![r].pc = "construct",
                    ![r].contextId = <<serverEnv.BROWSERBASE_CONTEXT_ID>>]
       ELSE requests' = [requests EXCEPT ![r].pc = "saved"]
    /\ UNCHANGED <<serverEnv, stagehand, pages, serverLog, console>>
    /\ UNCHANGED notServerVars

\* getSavedContextId has settled (lines 137-141): a saved id is used, and
\* without one createNewContext is called (line 145).
SavedContextRead(r) ==
    /\ requests[r].pc = "saved"
    /\ LET savedContextId == getSavedContextId(serverEnv.saved)
       IN IF savedContextId # << >> /\ savedContextId[1] # ""
          THEN /\ requests' =
                    [requests EXCEPT ![r].pc = "construct",
                                     ![r].contextId = savedContextId]
               /\ console' = console \o
                      << <<"Using saved context from mcpkit:",
                           savedContextId[1]>> >>
          ELSE /\ requests' = [requests EXCEPT ![r].pc = "creating"]
               /\ console' = console
    /\ UNCHANGED <<serverEnv, stagehand, pages, serverLog>>
    /\ UNCHANGED notServerVars

\* createNewContext has settled (lines 144-154): with the id of a new
\* context, or with a failure that getOrCreateContextId reports and turns
\* into undefined.
ContextCreated(r) ==
    /\ requests[r].pc = "creating"
    /\ \E ok \in BOOLEAN :
        IF ok
        THEN /\ requests' =
                    [requests EXCEPT ![r].pc = "construct",
                                     ![r].contextId = <<ServerNewContextId>>]
             /\ serverLog' = Append(serverLog,
                    [op |-> "createNewContext", request |-> r, ok |-> TRUE,
                     id |-> ServerNewContextId, serial |-> 0])
             /\ console' = console \o
                    << <<"Created new browser context:", ServerNewContextId>>,
                       <<"Add this to your .env file to reuse this session:">>,
                       <<"BROWSERBASE_CONTEXT_ID=", ServerNewContextId>> >>
        ELSE /\ requests' = [requests EXCEPT ![r].pc = "construct"]
             /\ serverLog' = Append(serverLog,
                    [op |-> "createNewContext", request |-> r, ok |-> FALSE,
                     id |-> "", serial |-> 0])
             /\ console' = console \o
                    << <<"Failed to create browser context:">>,
                       <<"Continuing without persistent context.">> >>
    /\ UNCHANGED <<serverEnv, stagehand, pages>>
    /\ UNCHANGED notServerVars

\* Lines 170-190: the continuation of `await getOrCreateContextId(domain)`
\* assigns a new instance to stagehand and calls its init().
ConstructStagehand(r) ==
    /\ requests[r].pc = "construct"
    /\ LET n == Cardinality(ServerEvents("new Stagehand")) + 1
       IN /\ stagehand' = <<NewServerStagehand(n, requests[r].contextId)>>
          /\ serverLog' = Append(serverLog,
                 [op |-> "new Stagehand", request |-> r, ok |-> TRUE,
                  id |-> IF requests[r].contextId = << >> THEN ""
                         ELSE requests[r].contextId[1],
                  serial |-> n])
          /\ pages' = Append(pages, "about:blank")
          /\ requests' = [requests EXCEPT ![r].pc = "init", ![r].made = n]
    /\ UNCHANGED <<serverEnv, console>>
    /\ UNCHANGED notServerVars

\* init() of the instance the request made has settled (lines 190-202):
\* resolved, initStagehand reports the live view of whatever stagehand holds
\* by now and returns it; rejected, initStagehand rejects.
StagehandInitSettled(r) ==
    /\ requests[r].pc = "init"
    /\ \E ok \in BOOLEAN :
        LET settled == Append(serverLog,
                [op |-> "init", request |-> r, ok |-> ok, id |-> "",
                 serial |-> requests[r].made])
        IN /\ serverLog' = settled
           /\ IF ok
              THEN /\ requests' =
                        [requests EXCEPT ![r].pc = "page",
                                         ![r].handle = stagehand[1].serial]
                   /\ console' =
                        IF Initialised(settled, stagehand[1].serial)
                        THEN console \o
                                << <<"Live view:",
                                     NumberText(stagehand[1].serial)>> >>
                        ELSE console
              ELSE /\ requests' =
                        [requests EXCEPT ![r].pc = "rejected",
                                         ![r].error = StagehandInitFailed]
                   /\ console' = console
    /\ UNCHANGED <<serverEnv, stagehand, pages>>
    /\ UNCHANGED notServerVars

NextServer ==
    \E r \in Requests :
        \/ ToolCallArrives(r)
        \/ InitStagehand(r)
        \/ SavedContextRead(r)
        \/ ContextCreated(r)
        \/ ConstructStagehand(r)
        \/ StagehandInitSettled(r)

SpecServer == InitServer /\ [][NextServer]_vars

---------------------------------------------------------------------------
(* The tool-call handler of the generated server (lines 346-660).  A tool  *)
(* is the list of the automation calls its case of the switch awaits, in   *)
(* order; every await settles with one of the outcomes the call can have.  *)

TARGET_URL == "https://news.ycombinator.com/"

\* Where a click on a link of the site lands, and where its search does.
SubPage == "https://news.ycombinator.com/newest"

SearchPage == "https://hn.algolia.com/"

\* The names of the switch, lines 388-561.
ToolNames ==
    {"get_top_stories", "navigate_to_section", "view_comments",
     "submit_new_story", "search_stories", "view_user_profile"}

\* request.params of the requests: a name and the arguments, as the set of
\* their <<key, value>> pairs.  The calls cover a tool without and tools
\* with performAction, the try block of search_stories, a landing under
\* and one outside TARGET_URL, a missing key, an empty value, a url that
\* is none, and a name the switch does not know.
ToolCalls ==
    { [name |-> "get_top_stories", arguments |-> {}],
      [name |-> "navigate_to_section",
       arguments |-> {<<"sectionName", "new">>}],
      [name |-> "navigate_to_section", arguments |-> {<<"sectionName", "">>}],
      [name |-> "view_comments", arguments |-> {}],
      [name |-> "submit_new_story",
       arguments |-> {<<"title", "TLA">>, <<"url", "a io">>}],
      [name |-> "search_stories", arguments |-> {<<"query", "tla">>}],
      [name |-> "delete_story", arguments |-> {}] }

\* arguments[key]: << >> when the key is absent.
Arg(arguments, key) ==
    IF \E p \in arguments : p[1] = key
    THEN <<(CHOOSE p \in arguments : p[1] = key)[2]>>
    ELSE << >>

\* The keys each schema of lines 220-244 declares as z.string().min(1).
RequiredArgs(name) ==
    CASE name = "get_top_stories" -> {}
      [] name = "navigate_to_section" -> {"sectionName"}
      [] name = "view_comments" -> {"storyTitle"}
      [] name = "submit_new_story" -> {"title"}
      [] name = "search_stories" -> {"query"}
      [] name = "view_user_profile" -> {"username"}

\* z.string().url(): the text is one `new URL` accepts.
IsUrl(text) ==
    LET cs == Chars(text)
    IN /\ StartsWith(cs, HttpLead) \/ StartsWith(cs, HttpsLead)
       /\ ~NewURL(cs).threw

\* The keys <name>ArgsSchema.parse(arguments) rejects.
ArgsIssues(name, arguments) ==
    {key \in RequiredArgs(name) :
        Arg(arguments, key) = << >> \/ Arg(arguments, key)[1] = ""}
    \cup
    {key \in {"url"} :
        /\ name = "submit_new_story"
        /\ Arg(arguments, key) # << >>
        /\ ~IsUrl(Arg(arguments, key)[1])}

\* One awaited call of a tool: the operation, where the page is once it
\* succeeded ("": where it was), and for a call inside a try block of the
\* tool the step its catch continues with (0: not inside one).
ToolStep(op, lands, resume) == [op |-> op, lands |-> lands, resume |-> resume]

\* performAction (lines 208-217): observe, then act on the first action.
performAction(lands, resume) ==
    <<ToolStep("observe", "", resume), ToolStep("act", lands, resume)>>

waitForLoadState(resume) == <<ToolStep("waitForLoadState", "", resume)>>

ExtractAndScreenshot ==
    <<ToolStep("extract", "", 0), ToolStep("screenshot", "", 0)>>

\* The cases of the switch, lines 389-547.
ToolSteps(name, arguments) ==
    CASE name = "get_top_stories" -> ExtractAndScreenshot
      [] name \in {"navigate_to_section", "view_comments",
                   "view_user_profile"} ->
            performAction(SubPage, 0) \o waitForLoadState(0)
            \o ExtractAndScreenshot
      [] name = "submit_new_story" ->
            performAction(SubPage, 0) \o waitForLoadState(0)
            \o performAction("", 0)
            \o (IF TruthyString(Arg(arguments, "url"))
                   \/ TruthyString(Arg(arguments, "text"))
                THEN performAction("", 0)
                ELSE << >>)
            \o performAction(SubPage, 0) \o waitForLoadState(0)
            \o ExtractAndScreenshot
      [] name = "search_stories" ->
            performAction("", 4) \o waitForLoadState(4)
            \o performAction("", 0) \o performAction(SearchPage, 0)
            \o waitForLoadState(0) \o ExtractAndScreenshot

\* How an awaited call can settle: observe may find no element and extract
\* may yield nothing, which the code turns into errors of its own.
StepOutcomes(op) ==
    CASE op = "observe" -> {"ok", "empty", "rejected"}
      [] op = "extract" -> {"ok", "empty", "rejected"}
      [] OTHER -> {"ok", "rejected"}

\* The message of the error a step ends with.
StepError(op, outcome) ==
    IF outcome = "rejected" THEN op \o " failed"
    ELSE IF op = "observe" THEN "Could not find element for action"
    ELSE "Failed to extract"

NavigationFailed == "goto failed"

NoContext == "stagehand has no context"

InvalidArguments == "ZodError"

\* The response of lines 563-575.
ToolResult(name) ==
    [isError |-> FALSE, content |-> <<"text", "image">>,
     text |-> <<"JSON.stringify(result)", name>>]

\* The responses with isError: true (lines 357-369, 550-558, 602-625).
ToolError(text, withScreenshot) ==
    [isError |-> TRUE,
     content |-> IF withScreenshot THEN <<"text", "image">> ELSE <<"text">>,
     text |-> text]

\* !page.url().startsWith(TARGET_URL), line 353.
NeedsGoto_never(url) == FALSE

NeedsGoto(url) == ~StartsWith(Chars(url), Chars(TARGET_URL))

\* The second try block up to its first await (lines 373-390): the default
\* case answers an unknown name, a failed parse of the arguments goes to
\* the catch, and otherwise the first call of the tool is awaited.
StartTool(req) ==
    IF req.name \notin ToolNames
    THEN [req EXCEPT !.pc = "answered",
                     !.response =
                        <<ToolError(<<"Unknown tool:", req.name>>, FALSE)>>]
    ELSE IF ArgsIssues(req.name, req.arguments) # {}
    THEN [req EXCEPT !.pc = "catch", !.caught = InvalidArguments]
    ELSE [req EXCEPT !.pc = "step", !.at = 1]

\* Lines 348-355, the continuation of `await initStagehand()`: the page of
\* the handle, and the goto when its URL is not under TARGET_URL.  An
\* instance whose init() has not resolved has no context: the access of
\* line 348, outside the try blocks, raises and the handler rejects.
EnsureTargetPage(r) ==
    LET req == requests[r]
    IN /\ req.pc = "page"
       /\ IF ~Initialised(serverLog, req.handle)
          THEN requests' = [requests EXCEPT ![r].pc = "rejected",
                                            ![r].error = NoContext]
          ELSE LET url == pages[req.handle]
               IN IF NeedsGoto(url)
                  THEN requests' = [requests EXCEPT ![r].pc = "goto",
                                                    ![r].seen = url]
                  ELSE requests' =
                          [requests EXCEPT
                              ![r] = StartTool([req EXCEPT !.seen = url])]
       /\ UNCHANGED <<serverEnv, stagehand, pages, serverLog, console>>
       /\ UNCHANGED notServerVars

\* page.goto(TARGET_URL) has settled (lines 354-370): resolved, the tool
\* starts; rejected, the catch answers with the navigation error.
GotoTargetSettled(r) ==
    LET req == requests[r]
    IN /\ req.pc = "goto"
       /\ \E ok \in BOOLEAN :
            IF ok
            THEN /\ pages' = [pages EXCEPT ![req.handle] = TARGET_URL]
                 /\ requests' =
                       [requests EXCEPT
                           ![r] = StartTool(
                                    [req EXCEPT !.did = @ \cup {"goto"}])]
            ELSE /\ pages' = pages
                 /\ requests' =
                       [requests EXCEPT
                           ![r].pc = "answered",
                           ![r].did = @ \cup {"goto failed"},
                           ![r].response =
                              <<ToolError(
                                  <<"Error navigating to initial page:",
                                    NavigationFailed>>, FALSE)>>]
       /\ UNCHANGED <<serverEnv, stagehand, serverLog, console>>
       /\ UNCHANGED notServerVars

\* The awaited call of a tool has settled (lines 389-575).  After the last
\* one the result is returned; an error goes to the catch of line 576, or,
\* inside the try of search_stories (lines 488-499), is logged and skipped.
ToolStepSettled(r) ==
    LET req == requests[r]
        steps == ToolSteps(req.name, req.arguments)
        step == steps[req.at]
        called == [req EXCEPT !.did = @ \cup {step.op}]
    IN /\ req.pc = "step"
       /\ \E outcome \in StepOutcomes(step.op) :
            IF outcome = "ok"
            THEN /\ requests' =
                       [requests EXCEPT
                           ![r] = IF req.at < Len(steps)
                                  THEN [called EXCEPT !.at = @ + 1]
                                  ELSE [called EXCEPT
                                           !.pc = "answered",
                                           !.at = 0,
                                           !.response =
                                              <<ToolResult(req.name)>>]]
                 /\ pages' = IF step.lands # ""
                             THEN [pages EXCEPT ![req.handle] = step.lands]
                             ELSE pages
                 /\ console' = console
            ELSE IF step.resume > 0
            THEN /\ requests' =
                       [requests EXCEPT
                           ![r] = [called EXCEPT !.at = step.resume]]
                 /\ pages' = pages
                 /\ console' = console \o
                       << <<"Could not find a 'search' link, ",
                            "attempting to type directly if input is present.",
                            " Error:", StepError(step.op, outcome)>> >>
            ELSE /\ requests' =
                       [requests EXCEPT
                           ![r] = [called EXCEPT
                                      !.pc = "catch",
                                      !.at = 0,
                                      !.caught =
                                         StepError(step.op, outcome)]]
                 /\ pages' = pages
                 /\ console' = console
       /\ UNCHANGED <<serverEnv, stagehand, serverLog>>
       /\ UNCHANGED notServerVars

\* The screenshot of the catch block has settled (lines 576-625): the
\* error answer carries it when there is one.
CatchScreenshotSettled(r) ==
    LET req == requests[r]
    IN /\ req.pc = "catch"
       /\ \E ok \in BOOLEAN :
            /\ requests' =
                  [requests EXCEPT
                      ![r].pc = "answered",
                      ![r].response =
                         <<ToolError(<<"Error executing tool", req.name,
                                       req.caught>>, ok)>>]
            /\ console' =
                  IF ok THEN console
                  ELSE console \o
                          <<<<"Failed to take screenshot on error:">>>>
       /\ UNCHANGED <<serverEnv, stagehand, pages, serverLog>>
       /\ UNCHANGED notServerVars

\* A request arrives with its params.
ToolCallRequested(r) ==
    /\ requests[r].pc = "none"
    /\ \E call \in ToolCalls :
        requests' = [requests EXCEPT ![r].pc = "initStagehand",
                                     ![r].name = call.name,
                                     ![r].arguments = call.arguments]
    /\ UNCHANGED <<serverEnv, stagehand, pages, serverLog, console>>
    /\ UNCHANGED notServerVars

\* The handler is followed with the context of the environment; where the
\* context comes from otherwise is what SpecServer covers.
InitHandler ==
    /\ InitServer
    /\ serverEnv.BROWSERBASE_CONTEXT_ID # ""
    /\ serverEnv.saved = << >>

NextHandler ==
    \E r \in Requests :
        \/ ToolCallRequested(r)
        \/ InitStagehand(r)
        \/ ConstructStagehand(r)
        \/ StagehandInitSettled(r)
        \/ EnsureTargetPage(r)
        \/ GotoTargetSettled(r)
        \/ ToolStepSettled(r)
        \/ CatchScreenshotSettled(r)

SpecHandler == InitHandler /\ [][NextHandler]_vars

---------------------------------------------------------------------------
(* Properties of the create run.                                           *)

AuthenticationOutcomes == {"Verified", "Skipped", "Failed"}

\* The authentication has reached an outcome that lets the run go on: it
\* returned, or --skip-auth left it out.
AuthenticationPassed ==
    IF skipAuth THEN pc = "idle"
    ELSE pc = "done" /\ result \in AuthenticationOutcomes \ {"Failed"}

\* The agent's message is JSON that satisfies the schema.
CatalogValid ==
    /\ agentResult.kind = "message"
    /\ agentResult.body \in SchemaValidBodies

---------------------------------------------------------------------------
(* Failures inside getStagehandInstance.                                   *)

\* The getOrCreate calls that getStagehandInstance made and that failed:
\* the event after such a call is the completion of the getStagehandInstance
\* call that made it.
FailedProvisionings ==
    {i \in EventsOf("getOrCreateContext") :
        /\ sessionLog[i].outcome = "raised"
        /\ i < Len(sessionLog)
        /\ sessionLog[i + 1].op \in {"getStagehandInstance", "new Stagehand"}}

\* C21: when the session API cannot provide a context identifier the
\* failure is surfaced as SessionProvisioningFailed and the call of
\* getStagehandInstance still goes on to a handle made without a context.
C21_ProvisioningNonFatal ==
    \A i \in FailedProvisionings :
        /\ sessionLog[i + 1].op = "new Stagehand"
        /\ sessionLog[i + 1].id = ""

---------------------------------------------------------------------------
(* Properties of normalizeUrl and isValidUrlInput.                         *)

\* normalizeUrl has completed on urlInput.
Normalized == upc \in {"normalized", "raised"} /\ urlResult # NoUrlResult

\* Two completions of normalizeUrl agree: the same URL, or both failed.
SameUrl(r1, r2) == r1.threw = r2.threw /\ r1.url = r2.url

\* C22: for every input normalizeUrl accepts, normalizing the text of the
\* URL it returned gives that URL again.
C22_IdempotentNormalization ==
    upc = "normalized" =>
        normalizeUrl(Href(urlResult.url)) = urlResult

\* An accepted input whose URL is written differently from the input.
C22_Witness ==
    /\ upc = "normalized"
    /\ Href(urlResult.url) # Chars(urlInput)
    /\ urlResult.url.pathname = <<"/", "o">>
    /\ normalizeUrl(Href(urlResult.url)) = urlResult

\* The input does not start, once trimmed, with http:// or https://.
SchemeLess(cs) ==
    /\ ~StartsWith(trim(cs), HttpLead)
    /\ ~StartsWith(trim(cs), HttpsLead)

Paddings == {<< >>, <<" ">>, <<"\n">>, <<"\t", " ">>}

\* C23 as stated: for every scheme-less input u, white space around it
\* included, normalizeUrl(u) equals normalizeUrl("https://" + u), and the
\* white space around u does not change the result.
C23_SchemeLessEquivalence ==
    Normalized /\ SchemeLess(Chars(urlInput)) =>
        /\ SameUrl(normalizeUrl(HttpsLead \o Chars(urlInput)), urlResult)
        /\ SameUrl(normalizeUrl(trim(Chars(urlInput))), urlResult)

\* C23: for a scheme-less input u that does not start with white space,
\* normalizeUrl(u) and normalizeUrl("https://" + u) return the same URL or
\* both fail; white space before and after u does not change the result.
C23_SchemeLessEquivalenceUnpadded ==
    Normalized /\ SchemeLess(Chars(urlInput)) =>
        /\ trimStart(Chars(urlInput)) = Chars(urlInput) =>
              SameUrl(normalizeUrl(HttpsLead \o Chars(urlInput)), urlResult)
        /\ \A lead \in Paddings, trail \in Paddings :
              SameUrl(normalizeUrl(lead \o Chars(urlInput) \o trail), urlResult)
        /\ SameUrl(normalizeUrl(trim(Chars(urlInput))), urlResult)

\* A scheme-less input with white space around it that is accepted, while
\* the same text after https:// is not.
C23_Witness ==
    /\ upc = "normalized"
    /\ SchemeLess(Chars(urlInput))
    /\ trimStart(Chars(urlInput)) # Chars(urlInput)
    /\ trimEnd(Chars(urlInput)) # Chars(urlInput)
    /\ Href(urlResult.url) = Chars(Url)
    /\ normalizeUrl(HttpsLead \o Chars(urlInput)).threw
    /\ SameUrl(normalizeUrl(HttpsLead \o trim(Chars(urlInput))), urlResult)

\* The scheme of the text, in lower case, when it is http or https followed
\* by ://, whatever the case of its letters (<< >>: no such scheme).
ExplicitScheme(cs) ==
    IF StartsWith(toLowerCase(cs), HttpLead) THEN <<"h", "t", "t", "p">>
    ELSE IF StartsWith(toLowerCase(cs), HttpsLead)
    THEN <<"h", "t", "t", "p", "s">>
    ELSE << >>

\* C24: an input that carries an explicit http or https scheme is parsed
\* as it is: the result is the URL of the input itself, with the input's
\* scheme and without a second https:// before it; a malformed one fails
\* with InvalidUrlFormat.
C24_ExplicitSchemeKept ==
    Normalized /\ ExplicitScheme(trim(Chars(urlInput))) # << >> =>
        LET text == trim(Chars(urlInput))
            scheme == ExplicitScheme(text)
            asItIs == NewURL(scheme \o From(text, Len(scheme) + 1))
        IN /\ urlResult.threw = asItIs.threw
           /\ urlResult.url = asItIs.url
           /\ ~urlResult.threw => urlResult.url.protocol = scheme
           /\ urlResult.threw => urlResult.message = InvalidUrlFormat

\* C25: isValidUrlInput never raises; it returns true exactly when
\* normalizeUrl returns a URL for the same input and false exactly when
\* normalizeUrl raises, so what the prompt accepted is normalized without
\* an error.
C25_ValidityMatchesNormalize ==
    /\ urlValid # << >> =>
          /\ ~urlValid[1].threw
          /\ urlValid[1].value \in BOOLEAN
          /\ urlValid[1].value = ~normalizeUrl(Chars(urlInput)).threw
    /\ Normalized /\ urlValid # << >> => ~urlResult.threw

\* The prompt turned an input down that normalizeUrl raises for.
C25_Witness ==
    /\ upc = "rejected"
    /\ urlValid = <<Returned(FALSE)>>
    /\ normalizeUrl(Chars(urlInput)).threw
    /\ normalizeUrl(Chars(urlInput)).message = InvalidUrlFormatLong

---------------------------------------------------------------------------
(* Properties of getModel.                                                 *)

\* MODEL_PROVIDER starts with one of the four prefixes.
Recognized(modelProvider) ==
    \E prefix \in {"openai/", "anthropic/", "google/", "xai/"} :
        StartsWith(Chars(modelProvider), Chars(prefix))

SessionWorkDone ==
    \/ sessionLog # << >>
    \/ spc # "idle"
    \/ stagehandInstance # << >>
    \/ \E d \in Domains : contextStore[d] # << >>
    \/ calls # << >>
    \/ pc # "idle"
    \/ dpc # "idle"
    \/ generatorCalls # << >>

---------------------------------------------------------------------------
(* Termination and stage order of authenticateToWebsite.                   *)

\* The stage a call belongs to, by the step that issues it: 1 initial
\* analysis, 2 click, 3 autofill, 4 manual wait, 5 final analysis.
StageOfSite(site) ==
    CASE site \in {"start", "initial", "lookup"} -> 1
      [] site \in {"click", "postClick"} -> 2
      [] site \in {"username", "password", "submit", "autofill",
                   "postAutofill"} -> 3
      [] site = "manual" -> 4
      [] site \in {"skip", "final"} -> 5

\* The stage the run is in (6: it has returned or raised).
StageOfPc(at) ==
    CASE at \in {"awaitActivePage", "gotoInitial", "analyzeInitial",
                 "lookup"} -> 1
      [] at \in {"clickLogin", "clickIdle", "analyzePostClick"} -> 2
      [] at \in {"autofill", "typeUsername", "typePassword", "clickSubmit",
                 "autofillIdle", "analyzePostAutofill"} -> 3
      [] at \in {"manual", "waitInput"} -> 4
      [] at \in {"gotoSkip", "analyzeFinal"} -> 5
      [] at = "done" -> 6

\* C28: when every call returns or raises and the operator enters a line,
\* a run of authenticateToWebsite ends, with exactly one of the outcomes
\* Verified, Skipped and Failed, which then stays; the run goes through
\* the stages initial analysis, click, autofill, manual wait and final
\* analysis in that order and never back, and so do the calls it issues.
C28_TerminatesInStageOrder ==
    /\ <>(pc = "done")
    /\ [](IF pc = "done"
          THEN /\ result \in {"Verified", "Skipped", "Failed"}
               /\ result = "Failed" <=> thrown # << >>
          ELSE result = "none" /\ thrown = << >>)
    /\ [](\A i, j \in 1..Len(calls) :
             i < j => StageOfSite(calls[i].site) <= StageOfSite(calls[j].site))
    /\ [][ /\ pc # "done"
           /\ StageOfPc(pc') >= StageOfPc(pc)
           /\ Len(calls') > Len(calls) =>
                 StageOfSite(calls'[Len(calls')].site) = StageOfPc(pc) ]_vars

\* A run that went through all five stages and ended Verified.
C28_Witness ==
    /\ pc = "done"
    /\ result = "Verified"
    /\ \A stage \in 1..5 :
          \E i \in 1..Len(calls) : StageOfSite(calls[i].site) = stage

---------------------------------------------------------------------------
(* The handles getStagehandInstance returns.                               *)

\* C29: a handle that getStagehandInstance returns has completed init():
\* a call during which the provisioning or init() fails raises, and the
\* instance whose init() failed is returned by no later call.
C29_ReturnedHandleInitialised ==
    /\ sessionCall.fn = "getStagehandInstance"
       /\ sessionCall.outcome = "returned"
       => /\ sessionCall.handle # << >>
          /\ sessionCall.handle[1].initialised
    /\ sessionCall.fn = "getStagehandInstance"
       /\ sessionCall.outcome = "raised"
       /\ sessionCall.error \in {SessionProvisioningFailed, InitFailed}
       => sessionCall.handle = << >>
    /\ spc = "idle" /\ stagehandInstance # << >> =>
          stagehandInstance[1].initialised

---------------------------------------------------------------------------
(* Properties of the generated server.                                     *)

\* C30: whatever the interleaving of the tool-call requests of one process,
\* at most one Stagehand instance is constructed, at most one init() is
\* run, and at most one new browser context is created.
C30_SingleInitialisation ==
    /\ Cardinality(ServerEvents("new Stagehand")) <= 1
    /\ Cardinality(ServerEvents("init")) <= 1
    /\ Cardinality(ServerContextsCreated) <= 1

\* The createNewContext calls of request r that have settled.
Creations(r) ==
    {i \in ServerEvents("createNewContext") : serverLog[i].request = r}

\* getOrCreateContextId has returned to request r.
ContextIdReturned(r) ==
    requests[r].pc = "construct" \/ requests[r].made > 0

\* The context mcpkit saved for the domain, when the file can be read and
\* holds one.
SavedContext ==
    IF serverEnv.saved \in {<<"ctx-saved">>, <<"ctx-saved\n">>}
    THEN <<"ctx-saved">>
    ELSE << >>

\* C31: getOrCreateContextId takes the context of the environment if one is
\* set, else the saved context of the domain if one can be read, else a
\* newly created one; createNewContext is called only when neither of the
\* first two exists, and when it fails the function returns no context
\* and does not raise.
C31_ContextPrecedence ==
    \A r \in Requests :
        /\ requests[r].pc = "creating" \/ Creations(r) # {} =>
              /\ serverEnv.BROWSERBASE_CONTEXT_ID = ""
              /\ SavedContext = << >>
        /\ requests[r].pc \in {"saved", "creating"} => requests[r].error = ""
        /\ ContextIdReturned(r) =>
              IF serverEnv.BROWSERBASE_CONTEXT_ID # ""
              THEN requests[r].contextId = <<serverEnv.BROWSERBASE_CONTEXT_ID>>
              ELSE IF SavedContext # << >>
              THEN requests[r].contextId = SavedContext
              ELSE /\ Cardinality(Creations(r)) = 1
                   /\ \A i \in Creations(r) :
                         requests[r].contextId =
                            IF serverLog[i].ok THEN <<serverLog[i].id>>
                            ELSE << >>

\* A creation failed and its request went on to a handle without a
\* persistent context.
C31_Witness ==
    \E r \in Requests :
        /\ \E i \in Creations(r) : ~serverLog[i].ok
        /\ requests[r].made > 0
        /\ requests[r].handle = requests[r].made
        /\ stagehand[1].browserSettings = << >>

\* The answers of the handler: a result with text and screenshot, or an
\* answer marked isError.
ToolAnswers ==
    {a \in [isError : BOOLEAN, content : {<<"text">>, <<"text", "image">>}] :
        ~a.isError => a.content = <<"text", "image">>}

\* C32: the handler never lets an exception out: whatever the tool name,
\* the arguments, the initialisation of the browser and the automation steps
\* do, a request is answered with a result (text and screenshot) or with an
\* answer marked isError.
C32_HandlerAlwaysAnswers ==
    \A r \in Requests :
        /\ requests[r].pc # "rejected"
        /\ requests[r].pc = "answered" =>
              /\ Len(requests[r].response) = 1
              /\ [isError |-> requests[r].response[1].isError,
                  content |-> requests[r].response[1].content] \in ToolAnswers

\* The URLs of the model that start with TARGET_URL.
UnderTarget == {"https://news.ycombinator.com/",
                "https://news.ycombinator.com/newest"}

\* The automation calls of the tools.
ToolOps == {"observe", "act", "extract", "waitForLoadState", "screenshot"}

\* The logic of the requested tool has begun for request r.
ToolLogicRan(r) ==
    \/ requests[r].pc \in {"step", "catch"}
    \/ requests[r].pc = "answered" /\ "goto failed" \notin requests[r].did
    \/ requests[r].did \cap ToolOps # {}

\* C33: before any logic of the tool runs the handler has gone to
\* TARGET_URL, unless the URL of the page already started with TARGET_URL;
\* when that navigation fails the answer is marked isError and no observe,
\* act or extract of the tool is executed.
C33_StartsFromTarget ==
    \A r \in Requests :
        /\ ToolLogicRan(r) =>
              /\ requests[r].seen # ""
              /\ "goto failed" \notin requests[r].did
              /\ IF requests[r].seen \in UnderTarget
                 THEN "goto" \notin requests[r].did
                 ELSE "goto" \in requests[r].did
        /\ requests[r].pc = "goto" =>
              /\ requests[r].seen \notin UnderTarget
              /\ requests[r].did = {}
        /\ "goto failed" \in requests[r].did =>
              /\ requests[r].pc = "answered"
              /\ requests[r].response[1].isError
              /\ requests[r].did = {"goto failed"}

\* A request found the page on the search site, where another request had
\* left it, went back to TARGET_URL and ran its tool.
C33_Witness ==
    \E r \in Requests :
        /\ requests[r].seen = SearchPage
        /\ {"goto", "extract"} \subseteq requests[r].did
        /\ requests[r].pc = "answered"
        /\ ~requests[r].response[1].isError

---------------------------------------------------------------------------
(* Confidentiality of the stored password in authenticateToWebsite.        *)

\* The passwords the vault may hold.
Passwords == {c.password : c \in StoredCredentials}

\* The instructions that carry a password to the password field.
PasswordEntries ==
    {"Type \"" \o p \o "\" into the password field" : p \in Passwords}

\* The parts of the lines written to the console so far.
ConsoleParts ==
    UNION {{console[i][j] : j \in 1..Len(console[i])} :
              i \in 1..Len(console)}

\* C34: the password of the stored credentials reaches the password-entry
\* action only and is never written to the console, so what the operator
\* sees does not depend on it.
C34_PasswordConfidential ==
    /\ ConsoleParts \cap Passwords = {}
    /\ \A i \in 1..Len(calls) :
          calls[i].arg \in PasswordEntries =>
             calls[i].op = "act" /\ calls[i].site = "password"

===========================================================================
